---- MODULE Spec2Model ----
(***************************************************************************)
(* Trip-planning backend: fallback itinerary allocation, result parsing    *)
(* and itinerary normalisation (agents/planning_agent.py), route           *)
(* resolution, mode selection and day enrichment (agents/RouteAgent.py).   *)
(*                                                                         *)
(* Python values are modelled as follows.  A dict is a function whose      *)
(* DOMAIN is the set of keys present.  A formatted string is the tuple of  *)
(* the values it is formatted from.  A value of the wrong Python type is a *)
(* marker dict with the single key "#type".                                *)
(***************************************************************************)
EXTENDS Integers, Sequences, FiniteSets, TLC

VARIABLES
    \* _build_fallback_itinerary
    fb_cities, fb_duration, fb_days, fb_itinerary, fb_city_idx, fb_k, fb_pc,
    \* _pick_recommendation
    pk_walking, pk_transit, pk_prefs, pk_result, pk_pc,
    \* RouteAgent: process state and one compute_routes_for_day call
    rt_has_key,     \* GOOGLE_MAPS_API_KEY is set and requests is importable
    rt_cache,       \* _route_cache
    rt_calls,       \* compute_routes_for_day calls started in this process
    rt_pc,          \* "ready", "running", "returned" or "raised"
    rt_items,       \* the items list of the current call (mutated in place)
    rt_city,        \* the city argument of the current call
    rt_pairs,       \* pairs: (idx, origin, destination)
    rt_fut,         \* one future per pair: get_route and its two lookups
    rt_lookups,     \* requests.get calls issued by the current call
    rt_first,       \* first estimates get_route returned, per (origin, dest, city)
    \* _parse_crew_result
    ps_dest, ps_start, ps_end,      \* trip_data
    ps_city_out, ps_itin_out,       \* city_task.output, itinerary_task.output
    ps_cities, ps_itinerary, ps_pc,
    \* the normalisation loop applied to one list of days
    nz_dest, nz_raw, nz_days, nz_once, nz_pass, nz_raised,
    \* planning runs: plan_trip and plan_trip_stream
    rn_in, rn_todo, rn_mode, rn_pc, rn_stage, rn_holder, rn_progress,
    rn_started, rn_events, rn_plan, rn_outcome, rn_exc,
    \* flight and hotel searches: the agent tools and result parsing
    sr_creds, sr_cities, sr_flight_cache, sr_hotel_cache, sr_flight_ext,
    sr_hotel_ext, sr_tools, sr_pc, sr_flights, sr_hotels,
    \* the worker pools of one compute_routes_for_day call on a long day
    pl_pairs, pl_fut, pl_pc,
    \* regenerate_itinerary (main.py): the new itinerary, the enrichment loop, the rows saved
    rg_raw, rg_itinerary, rg_day, rg_pc, rg_rows,
    \* start_planning and stream_planning (main.py): the trip row and the requests
    tp_status, tp_has_plan, tp_req,
    \* agents.py plan_trip_stream: the single-crew streaming generator
    lg_raises, lg_pc, lg_stage, lg_holder, lg_progress, lg_started, lg_events

fbVars == <<fb_cities, fb_duration, fb_days, fb_itinerary, fb_city_idx, fb_k, fb_pc>>
pkVars == <<pk_walking, pk_transit, pk_prefs, pk_result, pk_pc>>

rtVars == <<rt_has_key, rt_cache, rt_calls, rt_pc, rt_items, rt_city, rt_pairs,
            rt_fut, rt_lookups, rt_first>>

psVars == <<ps_dest, ps_start, ps_end, ps_city_out, ps_itin_out, ps_cities,
            ps_itinerary, ps_pc>>
nzVars == <<nz_dest, nz_raw, nz_days, nz_once, nz_pass, nz_raised>>

rnVars == <<rn_in, rn_todo, rn_mode, rn_pc, rn_stage, rn_holder, rn_progress,
            rn_started, rn_events, rn_plan, rn_outcome, rn_exc>>

srVars == <<sr_creds, sr_cities, sr_flight_cache, sr_hotel_cache, sr_flight_ext,
            sr_hotel_ext, sr_tools, sr_pc, sr_flights, sr_hotels>>

plVars == <<pl_pairs, pl_fut, pl_pc>>

rgVars == <<rg_raw, rg_itinerary, rg_day, rg_pc, rg_rows>>

tpVars == <<tp_status, tp_has_plan, tp_req>>

lgVars == <<lg_raises, lg_pc, lg_stage, lg_holder, lg_progress, lg_started, lg_events>>

vars == <<fbVars, pkVars, rtVars, psVars, nzVars, rnVars, srVars, plVars, rgVars, tpVars, lgVars>>

notFb == <<pkVars, rtVars, psVars, nzVars, rnVars, srVars, plVars, rgVars, tpVars, lgVars>>
notPk == <<fbVars, rtVars, psVars, nzVars, rnVars, srVars, plVars, rgVars, tpVars, lgVars>>
notRt == <<fbVars, pkVars, psVars, nzVars, rnVars, srVars, plVars, rgVars, tpVars, lgVars>>
notPs == <<fbVars, pkVars, rtVars, nzVars, rnVars, srVars, plVars, rgVars, tpVars, lgVars>>
notNz == <<fbVars, pkVars, rtVars, psVars, rnVars, srVars, plVars, rgVars, tpVars, lgVars>>
notRn == <<fbVars, pkVars, rtVars, psVars, nzVars, srVars, plVars, rgVars, tpVars, lgVars>>
notSr == <<fbVars, pkVars, rtVars, psVars, nzVars, rnVars, plVars, rgVars, tpVars, lgVars>>
notPl == <<fbVars, pkVars, rtVars, psVars, nzVars, rnVars, srVars, rgVars, tpVars, lgVars>>
notRg == <<fbVars, pkVars, rtVars, psVars, nzVars, rnVars, srVars, plVars, tpVars, lgVars>>
notTp == <<fbVars, pkVars, rtVars, psVars, nzVars, rnVars, srVars, plVars, rgVars, lgVars>>
notLg == <<fbVars, pkVars, rtVars, psVars, nzVars, rnVars, srVars, plVars, rgVars, tpVars>>

\* The parts of the state a specification does not exercise stay idle.
FbIdle ==
    /\ fb_cities = <<>> /\ fb_duration = 0 /\ fb_days = <<>>
    /\ fb_itinerary = <<>> /\ fb_city_idx = 1 /\ fb_k = 0 /\ fb_pc = "idle"

RtIdle ==
    /\ rt_has_key = FALSE /\ rt_cache = <<>> /\ rt_calls = 0 /\ rt_pc = "idle"
    /\ rt_items = <<>> /\ rt_city = "" /\ rt_pairs = <<>> /\ rt_fut = <<>>
    /\ rt_lookups = 0 /\ rt_first = <<>>

PsIdle ==
    /\ ps_dest = "" /\ ps_start = 0 /\ ps_end = 0 /\ ps_city_out = <<>>
    /\ ps_itin_out = <<>> /\ ps_cities = <<>> /\ ps_itinerary = <<>>
    /\ ps_pc = "idle"

RnIdle ==
    /\ rn_in = <<>> /\ rn_todo = {} /\ rn_mode = "none" /\ rn_pc = "idle"
    /\ rn_stage = <<>> /\ rn_holder = <<>> /\ rn_progress = <<>>
    /\ rn_started = {} /\ rn_events = <<>> /\ rn_plan = <<>>
    /\ rn_outcome = <<>> /\ rn_exc = <<>>

SrIdle ==
    /\ sr_creds = FALSE /\ sr_cities = <<>> /\ sr_flight_cache = <<>>
    /\ sr_hotel_cache = <<>> /\ sr_flight_ext = <<>> /\ sr_hotel_ext = <<>>
    /\ sr_tools = 0 /\ sr_pc = "idle" /\ sr_flights = <<>> /\ sr_hotels = <<>>

NzIdle ==
    /\ nz_dest = "" /\ nz_days = <<>> /\ nz_once = <<>> /\ nz_pass = 0
    /\ nz_raw = <<>>
    /\ nz_raised = FALSE

PkIdle ==
    /\ pk_walking = <<>> /\ pk_transit = <<>> /\ pk_prefs = <<>>
    /\ pk_result = <<>> /\ pk_pc = "idle"

PlIdle ==
    /\ pl_pairs = 0 /\ pl_fut = <<>> /\ pl_pc = "idle"

RgIdle ==
    /\ rg_raw = <<>> /\ rg_itinerary = <<>> /\ rg_day = 0 /\ rg_pc = "idle"
    /\ rg_rows = <<>>

TpIdle ==
    /\ tp_status = "none" /\ tp_has_plan = FALSE /\ tp_req = <<>>

LgIdle ==
    /\ lg_raises = {} /\ lg_pc = "idle" /\ lg_stage = <<>> /\ lg_holder = <<>>
    /\ lg_progress = <<>> /\ lg_started = {} /\ lg_events = <<>>

-----------------------------------------------------------------------------
(* Bounds of the model                                                     *)

MaxTripDays == 5
MaxCities == 3
MaxItems == 3
MaxRawDays == 1
MaxRawItems == 2
MaxToolCalls == 2
MaxDayCalls == 2
MaxPairs == 7
MaxRegenDays == 2
MaxRequests == 2

CityNames == {"Tokyo", "Kyoto", "Osaka"}

-----------------------------------------------------------------------------
(* Generic helpers                                                         *)

Max(a, b) == IF a >= b THEN a ELSE b
Min(a, b) == IF a <= b THEN a ELSE b

RECURSIVE SumSeq(_)
SumSeq(s) == IF s = <<>> THEN 0 ELSE Head(s) + SumSeq(Tail(s))

SeqsUpTo(S, n) == UNION {[1..k -> S] : k \in 0..n}

Range(s) == {s[i] : i \in DOMAIN s}

-----------------------------------------------------------------------------
(* planning_agent.py: helpers                                              *)

\* _gmaps_url: f"{place} {city}" with blanks replaced by "+", behind a fixed
\* prefix; the URL is determined by (place, city) and is never empty.
GmapsUrl(place, city) == <<"https://www.google.com/maps/search/", place, city>>

\* delayed_to_day = None (day numbers start at 1)
NoDelay == 0

\* A value that is not a number (JSON null, a string) is written -1; the
\* numbers of the model are >= 0.
NotANumber == 0 - 1
IsNumber(v) == v >= 0

\* f"day{day_number}_item{i}"
ItemId(day_number, i) == <<"day", day_number, "_item", i>>

\* _fallback_day_plan: the fixed five-activity template of one day.
FallbackDayPlan(city, day_number) ==
    << [start_time |-> "08:30", duration_minutes |-> 60,
        title |-> <<"Breakfast in", city>>, item_type |-> "meal",
        location |-> <<city, "city center">>,
        google_maps_url |-> GmapsUrl("breakfast cafe", city),
        cost_usd |-> 15, cost_local |-> <<"$", 15>>, currency |-> "USD"],
       [start_time |-> "10:00", duration_minutes |-> 150,
        title |-> <<"Explore", city>>, item_type |-> "attraction",
        location |-> <<city, "city center">>,
        google_maps_url |-> GmapsUrl("city center", city),
        cost_usd |-> 0, cost_local |-> <<"Free">>, currency |-> "USD"],
       [start_time |-> "12:30", duration_minutes |-> 60,
        title |-> <<"Lunch in", city>>, item_type |-> "meal",
        location |-> <<city, "dining district">>,
        google_maps_url |-> GmapsUrl("restaurant", city),
        cost_usd |-> 25, cost_local |-> <<"$", 25>>, currency |-> "USD"],
       [start_time |-> "14:00", duration_minutes |-> 180,
        title |-> <<city, "main attraction">>, item_type |-> "attraction",
        location |-> <<city, "main attraction">>,
        google_maps_url |-> GmapsUrl("top attraction", city),
        cost_usd |-> 20, cost_local |-> <<"$", 20>>, currency |-> "USD"],
       [start_time |-> "18:00", duration_minutes |-> 90,
        title |-> <<"Dinner in", city>>, item_type |-> "meal",
        location |-> <<city, "restaurant district">>,
        google_maps_url |-> GmapsUrl("dinner restaurant", city),
        cost_usd |-> 35, cost_local |-> <<"$", 35>>, currency |-> "USD"] >>

\* Adds key k with value v to dict d (d[k] = v).
SetKey(d, k, v) == [x \in DOMAIN d \cup {k} |-> IF x = k THEN v ELSE d[x]]

\* d.setdefault(k, v)
SetDefault(d, k, v) == IF k \in DOMAIN d THEN d ELSE SetKey(d, k, v)

\* d.pop(k) as far as the dict is concerned
DelKey(d, k) == [x \in DOMAIN d \ {k} |-> d[x]]

\* d.get(k, dflt)
Get(d, k, dflt) == IF k \in DOMAIN d THEN d[k] ELSE dflt

-----------------------------------------------------------------------------
(* planning_agent.py: _build_fallback_itinerary                            *)

\* days_per_city = [base + (1 if i < extra else 0) for i in range(n)]
\* (i is 0-based in the code and 1-based here).
DaysPerCityOffByOne(cities, duration) ==
    LET n == Len(cities)
        base == duration \div Max(n, 1)
        extra == duration % Max(n, 1)
    IN [i \in 1..n |-> base + (IF i - 1 <= extra THEN 1 ELSE 0)]

DaysPerCity(cities, duration) ==
    LET n == Len(cities)
        base == duration \div Max(n, 1)
        extra == duration % Max(n, 1)
    IN [i \in 1..n |-> base + (IF i - 1 < extra THEN 1 ELSE 0)]

\* day_number = len(itinerary) + 1
NextDayNumberPerCity(itinerary, k) == k + 1

NextDayNumber(itinerary, k) == Len(itinerary) + 1

\* The body of the inner loop: the day appended for `city`.
FallbackDay(itinerary, city, k) ==
    LET day_number == NextDayNumber(itinerary, k)
        plan == FallbackDayPlan(city, day_number)
        items == [i \in DOMAIN plan |->
                    SetKey(SetKey(SetKey(SetKey(plan[i],
                        "id", ItemId(day_number, i - 1)),
                        "status", "planned"),
                        "delayed_to_day", NoDelay),
                        "is_ai_suggested", 1)]
    IN [day_number |-> day_number,
        date |-> Len(itinerary),
        city |-> city,
        items |-> items]

\* The whole function, as the loops compute it.
RECURSIVE FallbackLoop(_, _, _, _)
FallbackLoop(cities, days, idx, itinerary) ==
    IF idx > Len(cities) THEN itinerary
    ELSE LET RECURSIVE Inner(_, _)
             Inner(k, itin) ==
                 IF k >= days[idx] THEN itin
                 ELSE Inner(k + 1, Append(itin, FallbackDay(itin, cities[idx], k)))
         IN FallbackLoop(cities, days, idx + 1, Inner(0, itinerary))

BuildFallbackItinerary(cities, duration) ==
    FallbackLoop(cities, DaysPerCity(cities, duration), 1, <<>>)

FbInit ==
    /\ fb_cities \in SeqsUpTo(CityNames, MaxCities) \ {<<>>}
    /\ fb_duration \in 1..MaxTripDays
    /\ fb_days = <<>>
    /\ fb_itinerary = <<>>
    /\ fb_city_idx = 1
    /\ fb_k = 0
    /\ fb_pc = "start"

\* lines 1014-1020
FbAllocate ==
    /\ fb_pc = "start"
    /\ fb_days' = DaysPerCity(fb_cities, fb_duration)
    /\ fb_pc' = "loop"
    /\ UNCHANGED <<fb_cities, fb_duration, fb_itinerary, fb_city_idx, fb_k>>
    /\ UNCHANGED notFb

\* one iteration of the inner loop, lines 1023-1039
FbAppendDay ==
    /\ fb_pc = "loop"
    /\ fb_city_idx <= Len(fb_cities)
    /\ fb_k < fb_days[fb_city_idx]
    /\ fb_itinerary' = Append(fb_itinerary,
                              FallbackDay(fb_itinerary, fb_cities[fb_city_idx], fb_k))
    /\ fb_k' = fb_k + 1
    /\ UNCHANGED <<fb_cities, fb_duration, fb_days, fb_city_idx, fb_pc>>
    /\ UNCHANGED notFb

\* the inner loop is exhausted: next iteration of the outer loop, line 1022
FbNextCity ==
    /\ fb_pc = "loop"
    /\ fb_city_idx <= Len(fb_cities)
    /\ fb_k >= fb_days[fb_city_idx]
    /\ fb_city_idx' = fb_city_idx + 1
    /\ fb_k' = 0
    /\ UNCHANGED <<fb_cities, fb_duration, fb_days, fb_itinerary, fb_pc>>
    /\ UNCHANGED notFb

\* line 1041
FbReturn ==
    /\ fb_pc = "loop"
    /\ fb_city_idx > Len(fb_cities)
    /\ fb_pc' = "done"
    /\ UNCHANGED <<fb_cities, fb_duration, fb_days, fb_itinerary, fb_city_idx, fb_k>>
    /\ UNCHANGED notFb

FbNext == FbAllocate \/ FbAppendDay \/ FbNextCity \/ FbReturn

InitFallback == FbInit /\ PkIdle /\ RtIdle /\ PsIdle /\ NzIdle /\ RnIdle /\ SrIdle /\ PlIdle /\ RgIdle /\ TpIdle /\ LgIdle

SpecFallback == InitFallback /\ [][FbNext]_vars

-----------------------------------------------------------------------------
(* Claims on the fallback allocation                                       *)

\* C1: for totalDays >= 1 and n >= 1 cities the allocation is a list of n
\* non-negative integers, the first (totalDays mod n) cities get
\* (totalDays div n) + 1 days and the rest (totalDays div n); the counts sum
\* to totalDays and no city gets zero days when totalDays >= n.
C1_Allocation ==
    fb_pc # "start" =>
        LET n == Len(fb_cities)
            base == fb_duration \div n
            rem == fb_duration % n
        IN /\ Len(fb_days) = n
           /\ \A i \in 1..n :
                /\ fb_days[i] \in Nat
                /\ (i <= rem) => fb_days[i] = base + 1
                /\ (i > rem) => fb_days[i] = base
           /\ SumSeq(fb_days) = fb_duration
           /\ (fb_duration >= n) => \A i \in 1..n : fb_days[i] >= 1

\* C1 witness: an allocation with a remainder (some city gets base+1, some base).
C1_Witness ==
    /\ fb_pc = "done"
    /\ Len(fb_cities) = 3
    /\ fb_duration = 5
    /\ fb_days = <<2, 2, 1>>

\* C2: the fallback itinerary has exactly totalDays days numbered 1..totalDays
\* in order, each tagged with one of the given cities, and the items of a day
\* carry pairwise different ids.
C2_FallbackItinerary ==
    fb_pc = "done" =>
        /\ Len(fb_itinerary) = fb_duration
        /\ \A j \in 1..Len(fb_itinerary) :
             LET day == fb_itinerary[j] IN
             /\ day.day_number = j
             /\ day.city \in Range(fb_cities)
             /\ \A a, b \in DOMAIN day.items :
                  a # b => day.items[a]["id"] # day.items[b]["id"]

\* C2 witness: Tokyo, Kyoto over 5 days.
C2_Witness ==
    /\ fb_pc = "done"
    /\ fb_cities = <<"Tokyo", "Kyoto">>
    /\ fb_duration = 5
    /\ Len(fb_itinerary) = 5
    /\ fb_itinerary[4].city = "Kyoto"
    /\ Len(fb_itinerary[4].items) = 5

-----------------------------------------------------------------------------
(* RouteAgent.py: _pick_recommendation                                     *)

\* Mode tokens a preference list may hold.  "#7" stands for an element that
\* is not a string (it has no .lower()).
NonStringToken == "#7"
Tokens == {"walking", "transit", "Walking", "bus", NonStringToken}

\* str.lower() on the tokens of the model
Lower(t) == IF t = "Walking" THEN "walking" ELSE t

\* The value stored under "avoid" / "prefer": JSON null, a bare string (which
\* iterates as its characters), or a list (its elements as a set, since the
\* code only builds a set from it).
PrefValues ==
    {[kind |-> "null", elems |-> {}], [kind |-> "str", elems |-> {}]}
        \cup {[kind |-> "list", elems |-> S] : S \in SUBSET Tokens}

\* travel_prefs: None, a falsy non-mapping ("falsy": [], "", 0), a truthy
\* non-mapping ("nonmapping": a list, a string) or a dict over avoid/prefer.
PrefDicts ==
    UNION {[K -> PrefValues] : K \in SUBSET {"avoid", "prefer"}}

PrefArgs ==
    {[kind |-> k, d |-> <<>>] : k \in {"None", "falsy", "nonmapping"}}
        \cup {[kind |-> "dict", d |-> D] : D \in PrefDicts}

NoPrefs == [kind |-> "None", d |-> <<>>]

\* {m.lower() for m in prefs.get(key, [])}: the set built, or "raise" when
\* the comprehension raises (iterating None, .lower() of a non-string).
ModeSet(prefs, key) ==
    IF key \notin DOMAIN prefs THEN {}
    ELSE LET v == prefs[key] IN
         IF v.kind = "null" THEN {"raise"}
         ELSE IF v.kind = "str" THEN {"<char>"}
         ELSE IF NonStringToken \in v.elems THEN {"raise"}
         ELSE {Lower(t) : t \in v.elems}

Minutes(secs) == Max(1, secs \div 60)

WalkResult(walk_secs) ==
    [raised |-> FALSE, mode |-> "walking",
     display |-> <<"Walk", Minutes(walk_secs), "min">>]

TransitResult(transit_secs, label) ==
    [raised |-> FALSE, mode |-> "transit",
     display |-> <<"Transit", Minutes(transit_secs), "min", label>>]

Raised == [raised |-> TRUE, mode |-> "None", display |-> <<>>]

\* no call has returned yet
NoResult == [raised |-> FALSE, mode |-> "None", display |-> <<>>]

\* lines 209-222 with the prefer checks ahead of the avoid checks
PickModePreferFirst(avoid, prefer, walk_secs, transit_secs, label) ==
    IF "walking" \in prefer THEN WalkResult(walk_secs)
    ELSE IF "transit" \in prefer THEN TransitResult(transit_secs, label)
    ELSE IF "walking" \in avoid /\ "transit" \notin avoid
        THEN TransitResult(transit_secs, label)
    ELSE IF "transit" \in avoid /\ "walking" \notin avoid
        THEN WalkResult(walk_secs)
    ELSE IF Minutes(walk_secs) <= 15 \/ walk_secs <= transit_secs
        THEN WalkResult(walk_secs)
    ELSE TransitResult(transit_secs, label)

\* lines 209-222 with the 15-minute test made on the seconds
PickModeBySeconds(avoid, prefer, walk_secs, transit_secs, label) ==
    IF "walking" \in avoid /\ "transit" \notin avoid
        THEN TransitResult(transit_secs, label)
    ELSE IF "transit" \in avoid /\ "walking" \notin avoid
        THEN WalkResult(walk_secs)
    ELSE IF "walking" \in prefer THEN WalkResult(walk_secs)
    ELSE IF "transit" \in prefer THEN TransitResult(transit_secs, label)
    ELSE IF walk_secs <= 900 \/ walk_secs <= transit_secs
        THEN WalkResult(walk_secs)
    ELSE TransitResult(transit_secs, label)

\* lines 209-222: preference overrides, then the default heuristic
PickMode(avoid, prefer, walk_secs, transit_secs, label) ==
    IF "walking" \in avoid /\ "transit" \notin avoid
        THEN TransitResult(transit_secs, label)
    ELSE IF "transit" \in avoid /\ "walking" \notin avoid
        THEN WalkResult(walk_secs)
    ELSE IF "walking" \in prefer THEN WalkResult(walk_secs)
    ELSE IF "transit" \in prefer THEN TransitResult(transit_secs, label)
    ELSE IF Minutes(walk_secs) <= 15 \/ walk_secs <= transit_secs
        THEN WalkResult(walk_secs)
    ELSE TransitResult(transit_secs, label)

\* lines 198-222.  walking / transit are the estimate dicts.
PickRecommendation(walking, transit, travel_prefs) ==
    IF travel_prefs.kind = "nonmapping" THEN Raised     \* prefs.get: AttributeError
    ELSE LET prefs == travel_prefs.d                    \* travel_prefs or {}
             avoid == ModeSet(prefs, "avoid")
             prefer == ModeSet(prefs, "prefer")
             walk_secs == Get(walking, "duration_value", 9999)
             transit_secs == Get(transit, "duration_value", 9999)
             label == Get(transit, "transit_name", "transit")
         IN IF "raise" \in avoid \/ "raise" \in prefer THEN Raised
            ELSE IF ~IsNumber(walk_secs) \/ ~IsNumber(transit_secs)
                THEN Raised                            \* None // 60: TypeError
            ELSE PickMode(avoid, prefer, walk_secs, transit_secs, label)

\* Estimates offered to mode selection: durations around the 15-minute
\* threshold and on both sides of each other; the duration may be absent.
WalkSecs == {30, 900, 959, 960, 1500}
TransitSecs == {400, 960, 1500}

WalkEstimates ==
    {<<>>} \cup {[k \in {"duration_value"} |-> d] : d \in WalkSecs}

TransitEstimates ==
    {<<>>} \cup {[k \in {"duration_value"} |-> d] : d \in TransitSecs}
        \cup {[duration_value |-> d, transit_name |-> "metro"] : d \in TransitSecs}

PkInit ==
    /\ pk_walking \in WalkEstimates
    /\ pk_transit \in TransitEstimates
    /\ pk_prefs \in PrefArgs
    /\ pk_result = NoResult
    /\ pk_pc = "call"

\* one call of _pick_recommendation
Pick ==
    /\ pk_pc = "call"
    /\ pk_result' = PickRecommendation(pk_walking, pk_transit, pk_prefs)
    /\ pk_pc' = "done"
    /\ UNCHANGED <<pk_walking, pk_transit, pk_prefs>>
    /\ UNCHANGED notPk

PkNext == Pick

InitPick == PkInit /\ FbIdle /\ RtIdle /\ PsIdle /\ NzIdle /\ RnIdle /\ SrIdle /\ PlIdle /\ RgIdle /\ TpIdle /\ LgIdle

SpecPick == InitPick /\ [][PkNext]_vars

-----------------------------------------------------------------------------
(* Claims on mode selection                                                *)

\* The preference argument is absent or a mapping whose avoid / prefer
\* entries, where present, are lists of strings.
WellFormedPrefs(p) ==
    \/ p.kind = "None"
    \/ /\ p.kind = "dict"
       /\ \A k \in DOMAIN p.d :
            p.d[k].kind = "list" /\ NonStringToken \notin p.d[k].elems

\* The modes (lower-cased) a well-formed preference argument names under key.
Named(p, key) ==
    IF key \notin DOMAIN p.d THEN {}
    ELSE {Lower(t) : t \in p.d[key].elems} \cap {"walking", "transit"}

\* C8: mode selection follows avoid, then prefer, then the default heuristic:
\* with exactly one mode in avoid the other mode is returned whatever prefer
\* and the durations are; otherwise a mode in prefer is returned; otherwise
\* the result is that of the default heuristic (the result without any
\* preferences).  With walking in avoid the result is walking only if transit
\* is in avoid too.
C8_AvoidPreferDefault ==
    (pk_pc = "done" /\ WellFormedPrefs(pk_prefs)) =>
        LET avoid == Named(pk_prefs, "avoid")
            prefer == Named(pk_prefs, "prefer")
        IN /\ ~pk_result.raised
           /\ (avoid = {"walking"}) => pk_result.mode = "transit"
           /\ (avoid = {"transit"}) => pk_result.mode = "walking"
           /\ (Cardinality(avoid) # 1 /\ prefer # {}) => pk_result.mode \in prefer
           /\ (Cardinality(avoid) # 1 /\ prefer = {}) =>
                  pk_result = PickRecommendation(pk_walking, pk_transit, NoPrefs)
           /\ ("walking" \in avoid /\ pk_result.mode = "walking")
                  => "transit" \in avoid

\* C8 witness: walking is avoided and preferred, and walking is the faster
\* mode; transit is returned.
C8_Witness ==
    /\ pk_pc = "done"
    /\ WellFormedPrefs(pk_prefs)
    /\ Named(pk_prefs, "avoid") = {"walking"}
    /\ Named(pk_prefs, "prefer") = {"walking"}
    /\ "duration_value" \in DOMAIN pk_walking
    /\ pk_walking["duration_value"] = 30
    /\ pk_result.mode = "transit"

\* C9: mode selection never fails: for every preference argument, malformed
\* ones included, it returns a mode and a summary, and a malformed argument
\* is treated as an empty one.
C9_NeverFails ==
    pk_pc = "done" =>
        /\ ~pk_result.raised
        /\ pk_result.mode \in {"walking", "transit"}
        /\ ~WellFormedPrefs(pk_prefs) =>
               pk_result = PickRecommendation(pk_walking, pk_transit, NoPrefs)

\* Neither avoid nor prefer decides: avoid names both modes or none, and
\* prefer names none.
Undecided(p) ==
    /\ WellFormedPrefs(p)
    /\ Cardinality(Named(p, "avoid")) # 1
    /\ Named(p, "prefer") = {}

\* C26 as stated: when neither avoid nor prefer decides the mode, walking is
\* returned exactly when the walking duration in seconds is at most 15
\* minutes (900 seconds) or at most the transit duration; transit otherwise.
C26_FifteenMinutes ==
    (pk_pc = "done" /\ Undecided(pk_prefs)) =>
        LET walk_secs == Get(pk_walking, "duration_value", 9999)
            transit_secs == Get(pk_transit, "duration_value", 9999)
        IN /\ pk_result.mode \in {"walking", "transit"}
           /\ pk_result.mode = "walking" <=>
                  (walk_secs <= 900 \/ walk_secs <= transit_secs)

\* C26 amended: when neither avoid nor prefer decides the mode, walking is
\* returned exactly when the walking duration in whole minutes (its seconds
\* divided by 60, rounded down) is at most 15, that is below 960 seconds, or
\* the walking duration is at most the transit duration; transit otherwise.
C26_FifteenWholeMinutes ==
    (pk_pc = "done" /\ Undecided(pk_prefs)) =>
        LET walk_secs == Get(pk_walking, "duration_value", 9999)
            transit_secs == Get(pk_transit, "duration_value", 9999)
        IN /\ pk_result.mode \in {"walking", "transit"}
           /\ pk_result.mode = "walking" <=>
                  (walk_secs < 960 \/ walk_secs <= transit_secs)

\* C26 witness: a walk of 959 seconds against a transit ride of 400 seconds,
\* no preferences deciding: walking is returned.
C26_Witness ==
    /\ pk_pc = "done"
    /\ Undecided(pk_prefs)
    /\ pk_walking = [k \in {"duration_value"} |-> 959]
    /\ pk_transit = [k \in {"duration_value"} |-> 400]
    /\ pk_result.mode = "walking"

-----------------------------------------------------------------------------
(* RouteAgent.py: _gmaps_distance_matrix, _mock_route, get_route           *)

Places == {"Colosseum", "Trevi Fountain, Rome"}
RouteCities == {"", "Rome"}

\* city.lower() in place.lower(), on the places and cities of the model
MentionsCity(place, city) == city = "Rome" /\ place = "Trevi Fountain, Rome"

\* _qualify: f"{place}, {city}" unless the city is empty or already mentioned
Qualify(place, city) ==
    IF city # "" /\ ~MentionsCity(place, city) THEN <<place, ", ", city>>
    ELSE <<place>>

\* cache_key = f"{origin_q}|{dest_q}|{mode}"
CacheKey(origin, destination, mode, city) ==
    <<Qualify(origin, city), "|", Qualify(destination, city), "|", mode>>

\* None, as returned by _gmaps_distance_matrix; falsy like the empty dict
NoneEst == <<>>
IsNone(est) == DOMAIN est = {}

\* What requests.get / resp.json() can produce for one request.
ApiOutcomes ==
    {"ok", "ok_nonnumeric", "timeout", "network_error", "status_not_ok",
     "element_not_ok", "malformed"}

\* The duration the mapping service reports for a pair and mode.
LiveSecs(origin, mode) ==
    (IF mode = "walking" THEN 1100 ELSE 480) + (IF origin = "Colosseum" THEN 0 ELSE 60)

\* lines 98-127: the value returned for one response.  A payload whose
\* status fields are OK is copied field by field without any type check.
GmapsResponse(outcome, origin, mode) ==
    IF outcome = "ok"
        THEN [duration_value |-> LiveSecs(origin, mode), distance_value |-> 900]
    ELSE IF outcome = "ok_nonnumeric"
        THEN [duration_value |-> NotANumber, distance_value |-> 900]
    ELSE NoneEst

\* _mock_route: estimates seeded by md5(origin|destination), so a function of
\* the pair.  Distance in tenths of a km within 0.3-5.0 km, walking at
\* 12 min/km, transit = walking / factor + wait.
MockTenths(origin, destination) == IF origin = "Colosseum" THEN 14 ELSE 37
MockWait(origin, destination) == IF origin = "Colosseum" THEN 240 ELSE 150

MockRoute(origin, destination) ==
    LET tenths == MockTenths(origin, destination)
        walk_seconds == tenths * 72
        transit_seconds == (walk_seconds \div 3) + MockWait(origin, destination)
    IN [walking |-> [duration_value |-> walk_seconds,
                     distance_value |-> tenths * 100],
        transit |-> [duration_value |-> transit_seconds,
                     distance_value |-> tenths * 100,
                     transit_name |-> "metro"]]

\* get_route lines 254-270, given what the two lookups returned
GetRoute(origin, destination, wval, tval, travel_prefs) ==
    LET mock == MockRoute(origin, destination)
        walking == IF IsNone(wval) THEN mock.walking ELSE wval
        transit == IF IsNone(tval) THEN mock.transit ELSE tval
        pick == PickRecommendation(walking, transit, travel_prefs)
    IN IF pick.raised THEN [raised |-> TRUE, info |-> <<>>]
       ELSE [raised |-> FALSE,
             info |-> [walking |-> walking, transit |-> transit,
                       recommended |-> pick.mode, display |-> pick.display]]

-----------------------------------------------------------------------------
(* RouteAgent.py: compute_routes_for_day                                   *)

\* Items as far as enrichment reads them: location and title may be absent
\* or empty.
ItemShapes ==
    { [k \in {"location"} |-> "Colosseum"],
      [k \in {"location"} |-> "Trevi Fountain, Rome"],
      [location |-> "", title |-> "Colosseum"],
      <<>> }

EmptyInfo == <<>>

\* item.get("location") or item.get("title", "")
PlaceOf(item) ==
    LET loc == Get(item, "location", "")
    IN IF loc # "" THEN loc ELSE Get(item, "title", "")

\* line 300 without the test that the two places differ
NeedsLookupSamePlace(items, i) ==
    LET origin == PlaceOf(items[i - 1])
        destination == PlaceOf(items[i])
    IN origin # "" /\ destination # ""

\* line 300
NeedsLookup(items, i) ==
    LET origin == PlaceOf(items[i - 1])
        destination == PlaceOf(items[i])
    IN origin # "" /\ destination # "" /\ origin # destination

\* line 292: items[0]["travel_info"] = {}
FirstItemCleared(items) ==
    [items EXCEPT ![1] = SetKey(@, "travel_info", EmptyInfo)]

\* lines 296-303: the items that need no lookup get an empty travel_info
SkipEmpty(items) ==
    [i \in DOMAIN items |->
        IF i > 1 /\ ~NeedsLookup(items, i)
            THEN SetKey(items[i], "travel_info", EmptyInfo)
            ELSE items[i]]

\* lines 295-301: the (idx, origin, destination) pairs, in item order
BuildPairs(items) ==
    LET all == [j \in 1..(Len(items) - 1) |->
                   [idx |-> j + 1,
                    origin |-> PlaceOf(items[j]),
                    destination |-> PlaceOf(items[j + 1])]]
        Keep(pr) == NeedsLookup(items, pr.idx)
    IN SelectSeq(all, Keep)

Lookup0 == [st |-> "queued", val |-> NoneEst]
Future0 == [st |-> "running", w |-> Lookup0, t |-> Lookup0,
            raised |-> FALSE, info |-> EmptyInfo]

Modes == {"walking", "transit"}
LookupOf(f, mode) == IF mode = "walking" THEN f.w ELSE f.t
WithLookup(f, mode, l) ==
    IF mode = "walking" THEN [f EXCEPT !.w = l] ELSE [f EXCEPT !.t = l]

\* lines 314-318 with the except branch doing nothing
CollectItemNoDefault(item, f) ==
    IF f.raised THEN item ELSE SetKey(item, "travel_info", f.info)

\* lines 314-318: the future's result, or {} when it raised
CollectItem(item, f) ==
    IF f.raised THEN SetKey(item, "travel_info", EmptyInfo)
    ELSE SetKey(item, "travel_info", f.info)

RtInit ==
    /\ rt_has_key \in BOOLEAN
    /\ rt_cache = <<>>
    /\ rt_calls = 0
    /\ rt_pc = "ready"
    /\ rt_items = <<>>
    /\ rt_city \in RouteCities
    /\ rt_pairs = <<>>
    /\ rt_fut = <<>>
    /\ rt_lookups = 0
    /\ rt_first = <<>>

\* compute_routes_for_day is called: lines 292-311 (up to the submits).  The
\* pool has min(len(pairs), 6) workers and a day of the model has fewer than
\* 6 pairs, so every submitted get_route starts running at once.
EnrichStart ==
    /\ rt_pc \in {"ready", "returned", "raised"}
    /\ rt_calls < MaxDayCalls
    /\ \E items \in SeqsUpTo(ItemShapes, MaxItems) :
         /\ rt_calls' = rt_calls + 1
         /\ rt_lookups' = 0
         /\ IF items = <<>>
               THEN \* items[0] raises IndexError
                    /\ rt_pc' = "raised"
                    /\ rt_items' = items
                    /\ rt_pairs' = <<>>
                    /\ rt_fut' = <<>>
               ELSE /\ rt_pc' = "running"
                    /\ rt_items' = SkipEmpty(FirstItemCleared(items))
                    /\ rt_pairs' = BuildPairs(items)
                    /\ rt_fut' = [p \in DOMAIN BuildPairs(items) |-> Future0]
    /\ UNCHANGED <<rt_has_key, rt_cache, rt_city, rt_first>>
    /\ UNCHANGED notRt

\* _gmaps_distance_matrix lines 73-89: credentials, then the cache under the lock
GmCheck ==
    /\ rt_pc = "running"
    /\ \E p \in DOMAIN rt_fut, mode \in Modes :
         LET f == rt_fut[p]
             key == CacheKey(rt_pairs[p].origin, rt_pairs[p].destination, mode, rt_city)
         IN /\ f.st = "running"
            /\ LookupOf(f, mode).st = "queued"
            /\ IF ~rt_has_key
                  THEN /\ rt_fut' = [rt_fut EXCEPT ![p] =
                              WithLookup(f, mode, [st |-> "done", val |-> NoneEst])]
                       /\ rt_lookups' = rt_lookups
               ELSE IF key \in DOMAIN rt_cache
                  THEN /\ rt_fut' = [rt_fut EXCEPT ![p] =
                              WithLookup(f, mode, [st |-> "done", val |-> rt_cache[key]])]
                       /\ rt_lookups' = rt_lookups
               ELSE /\ rt_fut' = [rt_fut EXCEPT ![p] =
                              WithLookup(f, mode, [st |-> "inflight", val |-> NoneEst])]
                    /\ rt_lookups' = rt_lookups + 1
    /\ UNCHANGED <<rt_has_key, rt_cache, rt_calls, rt_pc, rt_items, rt_city,
                   rt_pairs, rt_first>>
    /\ UNCHANGED notRt

\* _gmaps_distance_matrix lines 98-127: the request ends one way or another
GmResponse ==
    /\ rt_pc = "running"
    /\ \E p \in DOMAIN rt_fut, mode \in Modes, outcome \in ApiOutcomes :
         LET f == rt_fut[p]
             key == CacheKey(rt_pairs[p].origin, rt_pairs[p].destination, mode, rt_city)
             result == GmapsResponse(outcome, rt_pairs[p].origin, mode)
         IN /\ LookupOf(f, mode).st = "inflight"
            /\ rt_fut' = [rt_fut EXCEPT ![p] =
                              WithLookup(f, mode, [st |-> "done", val |-> result])]
            /\ rt_cache' = IF IsNone(result) THEN rt_cache
                           ELSE SetKey(rt_cache, key, result)
    /\ UNCHANGED <<rt_has_key, rt_calls, rt_pc, rt_items, rt_city, rt_pairs,
                   rt_lookups, rt_first>>
    /\ UNCHANGED notRt

\* get_route lines 251-270: both lookups are in, the route is returned or
\* _pick_recommendation raises
GetRouteFinish ==
    /\ rt_pc = "running"
    /\ \E p \in DOMAIN rt_fut :
         LET f == rt_fut[p]
             pr == rt_pairs[p]
             r == GetRoute(pr.origin, pr.destination, f.w.val, f.t.val, NoPrefs)
             args == <<pr.origin, pr.destination, rt_city>>
         IN /\ f.st = "running"
            /\ f.w.st = "done" /\ f.t.st = "done"
            /\ rt_fut' = [rt_fut EXCEPT ![p] =
                              [f EXCEPT !.st = "done", !.raised = r.raised, !.info = r.info]]
            /\ rt_first' = IF r.raised \/ args \in DOMAIN rt_first THEN rt_first
                           ELSE SetKey(rt_first, args,
                                       [walking |-> r.info.walking,
                                        transit |-> r.info.transit])
    /\ UNCHANGED <<rt_has_key, rt_cache, rt_calls, rt_pc, rt_items, rt_city,
                   rt_pairs, rt_lookups>>
    /\ UNCHANGED notRt

\* one iteration of the as_completed loop, lines 312-318
Collect ==
    /\ rt_pc = "running"
    /\ \E p \in DOMAIN rt_fut :
         /\ rt_fut[p].st = "done"
         /\ rt_items' = [rt_items EXCEPT ![rt_pairs[p].idx] = CollectItem(@, rt_fut[p])]
         /\ rt_fut' = [rt_fut EXCEPT ![p].st = "collected"]
    /\ UNCHANGED <<rt_has_key, rt_cache, rt_calls, rt_pc, rt_city, rt_pairs,
                   rt_lookups, rt_first>>
    /\ UNCHANGED notRt

\* line 320
EnrichReturn ==
    /\ rt_pc = "running"
    /\ \A p \in DOMAIN rt_fut : rt_fut[p].st = "collected"
    /\ rt_pc' = "returned"
    /\ UNCHANGED <<rt_has_key, rt_cache, rt_calls, rt_items, rt_city, rt_pairs,
                   rt_fut, rt_lookups, rt_first>>
    /\ UNCHANGED notRt

RtNext ==
    \/ EnrichStart \/ GmCheck \/ GmResponse
    \/ GetRouteFinish \/ Collect \/ EnrichReturn

InitRoute == RtInit /\ FbIdle /\ PkIdle /\ PsIdle /\ NzIdle /\ RnIdle /\ SrIdle /\ PlIdle /\ RgIdle /\ TpIdle /\ LgIdle

SpecRoute == InitRoute /\ [][RtNext]_vars

-----------------------------------------------------------------------------
(* Claims on route resolution and day enrichment                           *)

HasInfo(item) == "travel_info" \in DOMAIN item
InfoEmpty(item) == HasInfo(item) /\ DOMAIN item["travel_info"] = {}

\* What C4 promises of a call on a day of k items.
EnrichedWithin(k) ==
    /\ rt_pc = "returned"
    /\ Len(rt_items) = k
    /\ InfoEmpty(rt_items[1])
    /\ \A i \in 2..k : HasInfo(rt_items[i])
    /\ rt_lookups <= 2 * (k - 1)
    /\ (k = 1) => rt_lookups = 0

\* C4 as stated: for a day of any number k of items, 0 and 1 included,
\* enrichment leaves item 0 with an empty segment, gives items 1..k-1 a
\* segment and issues at most 2*(k-1) external lookups.
C4_AnyDay ==
    rt_pc \in {"returned", "raised"} => EnrichedWithin(Len(rt_items))

\* C4 restricted to days of k >= 1 items, which the code satisfies; the
\* lookups issued never exceed 2*(k-1) while the call runs either.
C4_NonEmptyDay ==
    /\ (rt_pc \in {"returned", "raised"} /\ Len(rt_items) >= 1)
           => EnrichedWithin(Len(rt_items))
    /\ (rt_pc = "running") => rt_lookups <= 2 * (Len(rt_items) - 1)

\* C4, k >= 1: a day of three items enriched with all four lookups issued.
C4_Witness ==
    /\ rt_pc = "returned"
    /\ Len(rt_items) = 3
    /\ rt_lookups = 4
    /\ InfoEmpty(rt_items[1])
    /\ ~InfoEmpty(rt_items[3])

\* C5: when the route lookup of one pair raises, only that pair's item gets an
\* empty segment; every other pair's lookup runs to completion and its item
\* gets exactly the route computed from its own lookups; enrichment returns
\* normally (it never ends in that exception).
C5_FailureIsolated ==
    /\ (rt_pc = "raised") => Len(rt_items) = 0
    /\ (rt_pc = "returned") =>
          \A p \in DOMAIN rt_fut :
              LET f == rt_fut[p]
                  pr == rt_pairs[p]
                  item == rt_items[pr.idx]
              IN /\ f.st = "collected"
                 /\ f.w.st = "done" /\ f.t.st = "done"
                 /\ f.raised => InfoEmpty(item)
                 /\ ~f.raised =>
                      /\ HasInfo(item)
                      /\ item["travel_info"] =
                            GetRoute(pr.origin, pr.destination,
                                     f.w.val, f.t.val, NoPrefs).info
                      /\ ~InfoEmpty(item)

\* C5 witness: a returned call in which one pair's lookup raised and the other
\* pair's item carries its route.
C5_Witness ==
    /\ rt_pc = "returned"
    /\ Len(rt_pairs) = 2
    /\ rt_fut[1].raised /\ ~rt_fut[2].raised
    /\ InfoEmpty(rt_items[rt_pairs[1].idx])
    /\ ~InfoEmpty(rt_items[rt_pairs[2].idx])

\* C6: any two resolutions with identical arguments in one process return
\* identical walking and transit estimates: every route returned equals the
\* first one returned for the same (origin, destination, city).
C6_SameArgsSameEstimates ==
    \A p \in DOMAIN rt_fut :
        LET f == rt_fut[p]
            args == <<rt_pairs[p].origin, rt_pairs[p].destination, rt_city>>
        IN (f.st \in {"done", "collected"} /\ ~f.raised) =>
              /\ args \in DOMAIN rt_first
              /\ f.info.walking = rt_first[args].walking
              /\ f.info.transit = rt_first[args].transit

\* C7: route resolution never raises: whatever the mapping API call did, the
\* resolver returns a walking and a transit estimate, the deterministic
\* fallback standing in for each mode the API did not supply.
C7_NeverRaises ==
    \A p \in DOMAIN rt_fut :
        LET f == rt_fut[p]
            mock == MockRoute(rt_pairs[p].origin, rt_pairs[p].destination)
        IN (f.st \in {"done", "collected"}) =>
              /\ ~f.raised
              /\ {"walking", "transit"} \subseteq DOMAIN f.info
              /\ IsNone(f.w.val) => f.info.walking = mock.walking
              /\ IsNone(f.t.val) => f.info.transit = mock.transit

\* A resolution of (origin, destination, mode, city) has completed: get_route
\* has returned for the pair and city before, or a lookup of the same pair
\* and mode has ended in the current call.
Resolved(p, mode) ==
    \/ <<rt_pairs[p].origin, rt_pairs[p].destination, rt_city>> \in DOMAIN rt_first
    \/ \E q \in DOMAIN rt_fut :
          /\ q # p
          /\ rt_pairs[q].origin = rt_pairs[p].origin
          /\ rt_pairs[q].destination = rt_pairs[p].destination
          /\ LookupOf(rt_fut[q], mode).st = "done"

\* C22: after the first resolution of a given (origin, destination, mode,
\* city), no later resolution with the same inputs in the same process issues
\* an external mapping call: a lookup goes out to the API only for inputs
\* that have not been resolved before.
C22_CachedAfterFirst ==
    [][(rt_pc = "running" /\ rt_pc' = "running") =>
          \A p \in DOMAIN rt_fut, mode \in Modes :
              (/\ LookupOf(rt_fut[p], mode).st = "queued"
               /\ LookupOf(rt_fut'[p], mode).st = "inflight")
                  => ~Resolved(p, mode)]_vars

\* C27: for each item after the first, if its place (location, or title when
\* it has no location) equals the previous item's, or either place is empty,
\* the item gets an empty travel segment and no lookup is issued for the
\* pair: the pair is not among the submitted ones, and the requests issued
\* are at most two per submitted pair.
C27_SamePlaceSkipped ==
    rt_pc \in {"running", "returned"} =>
        /\ \A i \in 2..Len(rt_items) :
              LET origin == PlaceOf(rt_items[i - 1])
                  destination == PlaceOf(rt_items[i])
              IN (origin = destination \/ origin = "" \/ destination = "") =>
                    /\ InfoEmpty(rt_items[i])
                    /\ \A p \in DOMAIN rt_pairs : rt_pairs[p].idx # i
        /\ rt_lookups <= 2 * Len(rt_pairs)

\* C27 witness: a returned day of three items whose first two are at the same
\* place (the second one named by its title); the second has an empty
\* segment, the third a route, and the two requests of that route are the
\* only ones issued.
C27_Witness ==
    /\ rt_pc = "returned"
    /\ Len(rt_items) = 3
    /\ PlaceOf(rt_items[1]) = "Colosseum"
    /\ "title" \in DOMAIN rt_items[2]
    /\ PlaceOf(rt_items[2]) = "Colosseum"
    /\ InfoEmpty(rt_items[2])
    /\ ~InfoEmpty(rt_items[3])
    /\ Len(rt_pairs) = 1
    /\ rt_lookups = 2

-----------------------------------------------------------------------------
(* RouteAgent.py: the thread pools of compute_routes_for_day (lines        *)
(* 306-318) and of get_route (lines 248-252) on a day of many pairs, with  *)
(* the API key set and none of the day's routes cached                     *)

\* line 307: max_workers=min(len(pairs), 6)
MaxWorkers == 6
PoolWorkers(n) == Min(n, MaxWorkers)

PoolFuture0 == [st |-> "queued", w |-> "queued", t |-> "queued"]

PlInit ==
    /\ pl_pairs \in 1..MaxPairs       \* line 306: if pairs
    /\ pl_fut = <<>>
    /\ pl_pc = "submit"

\* lines 307-311: the pool is created and one get_route per pair submitted
PoolSubmit ==
    /\ pl_pc = "submit"
    /\ pl_fut' = [p \in 1..pl_pairs |-> PoolFuture0]
    /\ pl_pc' = "running"
    /\ UNCHANGED pl_pairs
    /\ UNCHANGED notPl

PoolRunning == {p \in DOMAIN pl_fut : pl_fut[p].st = "running"}

\* A pool worker takes the oldest queued get_route; get_route submits its
\* walking and transit lookups to its own pool of two (lines 248-250), where
\* both start
WorkerTake ==
    /\ pl_pc = "running"
    /\ Cardinality(PoolRunning) < PoolWorkers(pl_pairs)
    /\ \E p \in DOMAIN pl_fut :
         /\ pl_fut[p].st = "queued"
         /\ \A q \in 1..(p - 1) : pl_fut[q].st # "queued"
         /\ pl_fut' = [pl_fut EXCEPT ![p] =
                          [st |-> "running", w |-> "inflight", t |-> "inflight"]]
    /\ UNCHANGED <<pl_pairs, pl_pc>>
    /\ UNCHANGED notPl

\* _gmaps_distance_matrix returns (lines 98-127)
LookupEnd ==
    /\ pl_pc = "running"
    /\ \E p \in DOMAIN pl_fut, mode \in {"walking", "transit"} :
         /\ pl_fut[p].st = "running"
         /\ IF mode = "walking"
               THEN /\ pl_fut[p].w = "inflight"
                    /\ pl_fut' = [pl_fut EXCEPT ![p].w = "done"]
               ELSE /\ pl_fut[p].t = "inflight"
                    /\ pl_fut' = [pl_fut EXCEPT ![p].t = "done"]
    /\ UNCHANGED <<pl_pairs, pl_pc>>
    /\ UNCHANGED notPl

\* get_route lines 251-270: both results are in and the route is returned
GetRouteEnd ==
    /\ pl_pc = "running"
    /\ \E p \in DOMAIN pl_fut :
         /\ pl_fut[p].st = "running"
         /\ pl_fut[p].w = "done" /\ pl_fut[p].t = "done"
         /\ pl_fut' = [pl_fut EXCEPT ![p].st = "done"]
    /\ UNCHANGED <<pl_pairs, pl_pc>>
    /\ UNCHANGED notPl

\* lines 312-320: every future has completed
PoolReturn ==
    /\ pl_pc = "running"
    /\ \A p \in DOMAIN pl_fut : pl_fut[p].st = "done"
    /\ pl_pc' = "returned"
    /\ UNCHANGED <<pl_pairs, pl_fut>>
    /\ UNCHANGED notPl

PlNext == PoolSubmit \/ WorkerTake \/ LookupEnd \/ GetRouteEnd \/ PoolReturn

InitPool == PlInit /\ FbIdle /\ PkIdle /\ RtIdle /\ PsIdle /\ NzIdle /\ RnIdle /\ SrIdle /\ RgIdle /\ TpIdle /\ LgIdle

SpecPool == InitPool /\ [][PlNext]_vars

\* the lookups against the mapping function that are in flight
InFlight ==
    {<<p, "walking">> : p \in {q \in PoolRunning : pl_fut[q].w = "inflight"}}
        \cup {<<p, "transit">> : p \in {q \in PoolRunning : pl_fut[q].t = "inflight"}}

\* C21: while a day is being enriched, at no moment are more than 6 lookups
\* against the mapping function in flight, whatever the number of items.
C21_AtMostSixInFlight == Cardinality(InFlight) <= 6

-----------------------------------------------------------------------------
(* main.py: regenerate_itinerary (lines 652-765), its enrichment loop      *)
(* (lines 724-732) over compute_routes_for_day                             *)

\* A travel_info an item carries before enrichment.
StaleInfo == [recommended |-> "walking", display |-> <<"Walk", 5, "min">>]

\* Items of the itinerary planning_agent.regenerate_itinerary returns, as far
\* as enrichment reads them.
RegenItems ==
    { [k \in {"location"} |-> "Colosseum"],
      [k \in {"location"} |-> "Trevi Fountain, Rome"],
      [location |-> "Colosseum", travel_info |-> StaleInfo] }

RegenDays ==
    {[city |-> "Rome", items |-> items] : items \in SeqsUpTo(RegenItems, MaxItems)}

RegenItineraries == SeqsUpTo(RegenDays, MaxRegenDays) \ {<<>>}

\* what the two lookups of a pair can return (lines 98-127)
LookupValues(origin, mode) == {GmapsResponse(o, origin, mode) : o \in ApiOutcomes}

\* compute_routes_for_day on one day, vals[p] being what the walking and the
\* transit lookup of pair p returned
ComputeRoutesForDay(items, city, vals) ==
    LET base == SkipEmpty(FirstItemCleared(items))
        pairs == BuildPairs(items)
        Route(p) == GetRoute(pairs[p].origin, pairs[p].destination,
                             vals[p][1], vals[p][2], NoPrefs)
    IN [i \in DOMAIN items |->
           IF \E p \in DOMAIN pairs : pairs[p].idx = i
              THEN CollectItem(base[i],
                               Route(CHOOSE p \in DOMAIN pairs : pairs[p].idx = i))
              ELSE base[i]]

\* the lookup results a day's pairs can get
DayLookups(items) ==
    LET pairs == BuildPairs(items)
        all == UNION {LookupValues(o, m) : o \in Places, m \in Modes}
    IN {vals \in [DOMAIN pairs -> all \X all] :
           \A p \in DOMAIN pairs :
               /\ vals[p][1] \in LookupValues(pairs[p].origin, "walking")
               /\ vals[p][2] \in LookupValues(pairs[p].origin, "transit")}

\* main.py lines 727-732: one iteration of the enrichment loop
EnrichDay(day, vals) ==
    LET items == Get(day, "items", <<>>)
    IN IF Len(items) > 1
          THEN SetKey(day, "items", ComputeRoutesForDay(items, Get(day, "city", ""), vals))
       ELSE IF Len(items) = 1
          THEN SetKey(day, "items", <<SetDefault(items[1], "travel_info", EmptyInfo)>>)
       ELSE day

\* main.py lines 735-753: travel_info=item.get("travel_info", {}) of each row
SavedRows(itinerary) ==
    [j \in DOMAIN itinerary |->
        [i \in DOMAIN Get(itinerary[j], "items", <<>>) |->
            Get(itinerary[j]["items"][i], "travel_info", EmptyInfo)]]

RgInit ==
    /\ rg_raw \in RegenItineraries       \* line 719: result["itinerary"]
    /\ rg_itinerary = rg_raw
    /\ rg_day = 1
    /\ rg_pc = "enrich"
    /\ rg_rows = <<>>

\* lines 726-732: the next day of the loop is enriched in place
RgEnrichDay ==
    /\ rg_pc = "enrich"
    /\ rg_day <= Len(rg_itinerary)
    /\ \E vals \in DayLookups(Get(rg_itinerary[rg_day], "items", <<>>)) :
         rg_itinerary' = [rg_itinerary EXCEPT ![rg_day] = EnrichDay(@, vals)]
    /\ rg_day' = rg_day + 1
    /\ UNCHANGED <<rg_raw, rg_pc, rg_rows>>
    /\ UNCHANGED notRg

\* lines 735-759: the items are saved and plan_data takes the new itinerary
RgSave ==
    /\ rg_pc = "enrich"
    /\ rg_day > Len(rg_itinerary)
    /\ rg_rows' = SavedRows(rg_itinerary)
    /\ rg_pc' = "saved"
    /\ UNCHANGED <<rg_raw, rg_itinerary, rg_day>>
    /\ UNCHANGED notRg

RgNext == RgEnrichDay \/ RgSave

InitRegen == RgInit /\ FbIdle /\ PkIdle /\ RtIdle /\ PsIdle /\ NzIdle /\ RnIdle /\ SrIdle /\ PlIdle /\ TpIdle /\ LgIdle

SpecRegen == InitRegen /\ [][RgNext]_vars

\* The segments enrichment can compute for an item from the item before it.
SegmentsFrom(prev, cur) ==
    {EmptyInfo} \cup
      {GetRoute(PlaceOf(prev), PlaceOf(cur), w, t, NoPrefs).info :
          w \in LookupValues(PlaceOf(prev), "walking"),
          t \in LookupValues(PlaceOf(prev), "transit")}

\* C29: in the itinerary that regeneration enriches and saves, the first item
\* of every day, a single-item day included, carries an empty travel segment,
\* and every other item's segment is one computed from the item right before
\* it in the same day.
C29_SegmentsWithinDay ==
    rg_pc = "saved" =>
        \A j \in DOMAIN rg_itinerary :
            LET items == rg_itinerary[j]["items"]
            IN \A i \in DOMAIN items :
                  /\ rg_rows[j][i] = Get(items[i], "travel_info", EmptyInfo)
                  /\ i = 1 => rg_rows[j][i] = EmptyInfo
                  /\ i > 1 => rg_rows[j][i] \in SegmentsFrom(items[i - 1], items[i])

-----------------------------------------------------------------------------
(* main.py: start_planning (lines 505-556) and stream_planning (lines      *)
(* 559-635) on one trip.  The handlers are plain functions, which the      *)
(* server runs in worker threads, each with its own database session.      *)

RequestKinds == {"plan", "stream"}

\* a request that has not read the trip yet
Request0(kind) == [kind |-> kind, pc |-> "new", seen |-> "none", seen_plan |-> FALSE]

TpInit ==
    /\ tp_status = "pending"          \* create_trip, line 385
    /\ tp_has_plan = FALSE
    /\ tp_req \in [1..MaxRequests -> {Request0(k) : k \in RequestKinds}]

\* lines 508-511 (562-565): the handler loads the trip row
TpQuery ==
    \E r \in DOMAIN tp_req :
        /\ tp_req[r].pc = "new"
        /\ tp_req' = [tp_req EXCEPT ![r] =
                         [@ EXCEPT !.pc = IF tp_req[r].kind = "stream" THEN "credit" ELSE "loaded",
                                   !.seen = tp_status, !.seen_plan = tp_has_plan]]
        /\ UNCHANGED <<tp_status, tp_has_plan>>
        /\ UNCHANGED notTp

\* stream_planning lines 568-576: a new run is charged one credit; the commit
\* expires the loaded row, so the tests that follow read the row again
TpCredit ==
    \E r \in DOMAIN tp_req :
        /\ tp_req[r].pc = "credit"
        /\ LET q == tp_req[r]
               charged == ~(q.seen = "completed" /\ q.seen_plan) /\ q.seen # "in_progress"
           IN tp_req' = [tp_req EXCEPT ![r] =
                            IF charged
                               THEN [q EXCEPT !.pc = "loaded", !.seen = tp_status,
                                              !.seen_plan = tp_has_plan]
                               ELSE [q EXCEPT !.pc = "loaded"]]
        /\ UNCHANGED <<tp_status, tp_has_plan>>
        /\ UNCHANGED notTp

\* lines 524, 590: if trip.planning_status == "in_progress"
Conflict(q) == q.seen = "in_progress"

\* lines 513-528 (578-594): the cached plan is returned, or the request is
\* rejected with 409, or the status is set to in_progress and committed
TpBegin ==
    \E r \in DOMAIN tp_req :
        /\ tp_req[r].pc = "loaded"
        /\ LET q == tp_req[r]
           IN IF q.seen = "completed" /\ q.seen_plan
                 THEN /\ tp_req' = [tp_req EXCEPT ![r].pc = "cached"]
                      /\ UNCHANGED tp_status
              ELSE IF Conflict(q)
                 THEN /\ tp_req' = [tp_req EXCEPT ![r].pc = "rejected"]
                      /\ UNCHANGED tp_status
              ELSE /\ tp_req' = [tp_req EXCEPT ![r].pc = "running"]
                   /\ tp_status' = "in_progress"
        /\ UNCHANGED tp_has_plan
        /\ UNCHANGED notTp

\* lines 542 and 618-622, _save_plan_to_db lines 443-445: the run produced a
\* plan (plan_trip returned, or the stream yielded its complete event)
TpSaved ==
    \E r \in DOMAIN tp_req :
        /\ tp_req[r].pc = "running"
        /\ tp_req' = [tp_req EXCEPT ![r].pc = "completed"]
        /\ tp_status' = "completed"
        /\ tp_has_plan' = TRUE
        /\ UNCHANGED notTp

\* lines 553-556 and 623-629: plan_trip, or the stream generator, raised
TpRaised ==
    \E r \in DOMAIN tp_req :
        /\ tp_req[r].pc = "running"
        /\ tp_req' = [tp_req EXCEPT ![r].pc = "raised"]
        /\ tp_status' = "failed"
        /\ UNCHANGED tp_has_plan
        /\ UNCHANGED notTp

\* lines 610-622: plan_trip_stream ended with an error event; the loop ends
\* normally with plan_data None and nothing is written
TpErrorEvent ==
    \E r \in DOMAIN tp_req :
        /\ tp_req[r].kind = "stream"
        /\ tp_req[r].pc = "running"
        /\ tp_req' = [tp_req EXCEPT ![r].pc = "error_event"]
        /\ UNCHANGED <<tp_status, tp_has_plan>>
        /\ UNCHANGED notTp

\* the client goes away: the server closes event_generator, GeneratorExit is
\* not an Exception and passes the handler of line 623
TpAbandoned ==
    \E r \in DOMAIN tp_req :
        /\ tp_req[r].kind = "stream"
        /\ tp_req[r].pc = "running"
        /\ tp_req' = [tp_req EXCEPT ![r].pc = "abandoned"]
        /\ UNCHANGED <<tp_status, tp_has_plan>>
        /\ UNCHANGED notTp

TpNext ==
    \/ TpQuery \/ TpCredit \/ TpBegin \/ TpSaved
    \/ TpRaised \/ TpErrorEvent \/ TpAbandoned

InitTrip == TpInit /\ FbIdle /\ PkIdle /\ RtIdle /\ PsIdle /\ NzIdle /\ RnIdle /\ SrIdle /\ PlIdle /\ RgIdle /\ LgIdle

SpecTrip == InitTrip /\ [][TpNext]_vars

ActiveRuns == {r \in DOMAIN tp_req : tp_req[r].pc = "running"}

\* C23: a trip never remains in_progress after its planning run has ended:
\* whenever no planning run of the trip is active (each one has returned,
\* raised, ended its stream with an error event or been abandoned), the
\* planning_status is not in_progress, and it is failed when the run that
\* set it ended without a plan.
C23_NoStaleInProgress ==
    ActiveRuns = {} => tp_status # "in_progress"

\* C24: for every interleaving of concurrent plan and plan/stream requests
\* on a trip, at most one planning run is active at a time.
C24_OneActiveRun ==
    Cardinality(ActiveRuns) <= 1

-----------------------------------------------------------------------------
(* planning_agent.py: the normalisation loop of _parse_crew_result         *)
(* (lines 972-992) and of modify_itinerary_chat (lines 1376-1391)          *)

\* Values of the wrong type: a day or an item that is not a dict, an "items"
\* value that cannot be iterated as a list of dicts.
NonDict == [k \in {"#type"} |-> "nondict"]
NonList == <<[k \in {"#type"} |-> "nonlist"]>>
IsDict(x) == "#type" \notin DOMAIN x

\* not item.get("google_maps_url"): absent, None or "" (the empty tuple)
FalsyUrl(item) == Get(item, "google_maps_url", <<>>) = <<>>

\* lines 981-987 with the mirror line 987 under an else of line 981
NormalizeCostMirrorInElse(item) ==
    LET a == IF "cost_usd" \notin DOMAIN item
                THEN LET raw_cost == Get(item, "cost", 0)
                     IN SetKey(DelKey(item, "cost"), "cost_usd",
                               IF IsNumber(raw_cost) THEN raw_cost ELSE 0)
                ELSE SetKey(item, "cost", item["cost_usd"])
        b == SetDefault(a, "cost_local", <<"$", a["cost_usd"]>>)
    IN SetDefault(b, "currency", "USD")

\* lines 981-987: cost reconciliation
NormalizeCost(item) ==
    LET a == IF "cost_usd" \notin DOMAIN item
                THEN LET raw_cost == Get(item, "cost", 0)
                     IN SetKey(DelKey(item, "cost"), "cost_usd",
                               IF IsNumber(raw_cost) THEN raw_cost ELSE 0)
                ELSE item
        b == SetDefault(a, "cost_local", <<"$", a["cost_usd"]>>)
        c == SetDefault(b, "currency", "USD")
    IN SetKey(c, "cost", c["cost_usd"])

\* lines 975-992 with line 975 assigning the id instead of defaulting it
NormalizeItemAssignsId(item, i, day_number, city_name) ==
    LET a == SetKey(item, "id", ItemId(day_number, i))
        b == SetDefault(a, "status", "planned")
        c == SetDefault(b, "delayed_to_day", NoDelay)
        d == SetDefault(c, "is_ai_suggested", 1)
        e == NormalizeCost(d)
    IN IF FalsyUrl(e)
          THEN LET loc == Get(e, "location", Get(e, "title", city_name))
               IN SetKey(e, "google_maps_url", GmapsUrl(loc, city_name))
          ELSE e

\* lines 975-992 for the item at (0-based) index i of a day
NormalizeItem(item, i, day_number, city_name) ==
    LET a == SetDefault(item, "id", ItemId(day_number, i))
        b == SetDefault(a, "status", "planned")
        c == SetDefault(b, "delayed_to_day", NoDelay)
        d == SetDefault(c, "is_ai_suggested", 1)
        e == NormalizeCost(d)
    IN IF FalsyUrl(e)
          THEN LET loc == Get(e, "location", Get(e, "title", city_name))
               IN SetKey(e, "google_maps_url", GmapsUrl(loc, city_name))
          ELSE e

\* the inner loop from (1-based) position i on; it stops at an item that is
\* not a dict (item.setdefault raises), leaving what it did so far in place
RECURSIVE NormalizeItemsFrom(_, _, _, _)
NormalizeItemsFrom(items, i, day_number, city_name) ==
    IF i > Len(items) THEN [items |-> items, raised |-> FALSE]
    ELSE IF ~IsDict(items[i]) THEN [items |-> items, raised |-> TRUE]
    ELSE NormalizeItemsFrom(
            [items EXCEPT ![i] = NormalizeItem(@, i - 1, day_number, city_name)],
            i + 1, day_number, city_name)

\* lines 973-992 for one day; day.get raises when the day is not a dict
NormalizeDay(day, dest) ==
    IF ~IsDict(day) THEN [day |-> day, raised |-> TRUE]
    ELSE LET city_name == Get(day, "city", dest)
             r == NormalizeItemsFrom(Get(day, "items", <<>>), 1,
                                     Get(day, "day_number", 0), city_name)
         IN [day |-> IF "items" \in DOMAIN day THEN SetKey(day, "items", r.items)
                     ELSE day,
             raised |-> r.raised]

RECURSIVE NormalizeDaysFrom(_, _, _)
NormalizeDaysFrom(days, j, dest) ==
    IF j > Len(days) THEN [days |-> days, raised |-> FALSE]
    ELSE LET r == NormalizeDay(days[j], dest)
             next == [days EXCEPT ![j] = r.day]
         IN IF r.raised THEN [days |-> next, raised |-> TRUE]
            ELSE NormalizeDaysFrom(next, j + 1, dest)

\* the loop over the list of days, mutating it in place
NormalizeDays(days, dest) == NormalizeDaysFrom(days, 1, dest)

\* Raw items: nothing set, everything set, a legacy cost, a non-numeric cost
\* with an empty URL, an id of the default form, and a non-dict.
RawItemShapes ==
    { <<>>,
      [id |-> <<"x">>, status |-> "completed", delayed_to_day |-> 2,
       is_ai_suggested |-> 0, cost_usd |-> 5, cost |-> 7,
       cost_local |-> <<"E", 12>>, currency |-> "EUR",
       google_maps_url |-> <<"u">>, location |-> "Fushimi Inari", title |-> "Tea ceremony"],
      [id |-> <<"x">>, cost |-> 7, title |-> "Tea ceremony"],
      [cost |-> NotANumber, google_maps_url |-> <<>>, location |-> "Fushimi Inari"],
      [id |-> ItemId(1, 1), title |-> "Tea ceremony"],
      NonDict }

\* A raw day: city and day_number may be missing, items may be missing.
DayFields(K, items) ==
    [k \in K |-> IF k = "city" THEN "Kyoto"
                 ELSE IF k = "day_number" THEN 1
                 ELSE items]

RawDays ==
    {NonDict}
      \cup {DayFields(K, <<>>) : K \in SUBSET {"city", "day_number"}}
      \cup {DayFields(K \cup {"items"}, items) :
              K \in SUBSET {"city", "day_number"},
              items \in SeqsUpTo(RawItemShapes, MaxRawItems) \cup {NonList}}

RawDayLists == SeqsUpTo(RawDays, MaxRawDays)

\* Every combination of present and absent fields of one item.
PlainFields ==
    {"id", "status", "delayed_to_day", "is_ai_suggested", "cost_usd",
     "cost_local", "currency", "location", "title"}

ExplicitValue(k, cost, url) ==
    CASE k = "id" -> <<"x">>
      [] k = "status" -> "completed"
      [] k = "delayed_to_day" -> 2
      [] k = "is_ai_suggested" -> 0
      [] k = "cost_usd" -> 5
      [] k = "cost_local" -> <<"E", 12>>
      [] k = "currency" -> "EUR"
      [] k = "location" -> "Fushimi Inari"
      [] k = "title" -> "Tea ceremony"
      [] k = "cost" -> IF cost = "number" THEN 7 ELSE NotANumber
      [] k = "google_maps_url" -> IF url = "empty" THEN <<>> ELSE <<"u">>

AllItems ==
    { [k \in K \cup (IF cost = "absent" THEN {} ELSE {"cost"})
               \cup (IF url = "absent" THEN {} ELSE {"google_maps_url"})
         |-> ExplicitValue(k, cost, url)] :
        K \in SUBSET PlainFields,
        cost \in {"absent", "number", "nonnumber"},
        url \in {"absent", "empty", "set"} }

SingleItemLists ==
    { <<DayFields(K \cup {"items"}, <<item>>)>> :
        K \in SUBSET {"city", "day_number"}, item \in AllItems }

NzInit ==
    /\ nz_dest = "Paris"
    /\ nz_days \in RawDayLists \cup SingleItemLists
    /\ nz_raw = nz_days
    /\ nz_once = <<>>
    /\ nz_pass = 0
    /\ nz_raised = FALSE

\* _parse_crew_result lines 971-994: the first pass; an exception ends the
\* loop and is swallowed
NzParsePass ==
    /\ nz_pass = 0
    /\ LET r == NormalizeDays(nz_days, nz_dest)
       IN /\ nz_days' = r.days
          /\ nz_once' = r.days
    /\ nz_pass' = 1
    /\ UNCHANGED <<nz_dest, nz_raw, nz_raised>>
    /\ UNCHANGED notNz

\* modify_itinerary_chat lines 1376-1391 on the same list (the reply carries
\* the itinerary back unchanged): a later pass; an exception propagates
NzChatPass ==
    /\ nz_pass = 1
    /\ ~nz_raised
    /\ LET r == NormalizeDays(nz_days, nz_dest)
       IN /\ nz_days' = r.days
          /\ nz_raised' = r.raised
    /\ nz_pass' = 2
    /\ UNCHANGED <<nz_dest, nz_raw, nz_once>>
    /\ UNCHANGED notNz

NzNext == NzParsePass \/ NzChatPass

InitNormalize == NzInit /\ FbIdle /\ PkIdle /\ RtIdle /\ PsIdle /\ RnIdle /\ SrIdle /\ PlIdle /\ RgIdle /\ TpIdle /\ LgIdle

SpecNormalize == InitNormalize /\ [][NzNext]_vars

\* C10: normalisation is idempotent: after the second pass every field of
\* every item (and of every day) equals its value after the first pass.
C10_Idempotent ==
    nz_pass = 2 => nz_days = nz_once

\* C10 witness: two passes over a day whose item had its legacy cost migrated
\* and its id and URL defaulted by the first pass.
C10_Witness ==
    /\ nz_pass = 2
    /\ Len(nz_days) = 1
    /\ IsDict(nz_days[1])
    /\ "items" \in DOMAIN nz_days[1]
    /\ Len(nz_days[1]["items"]) >= 1
    /\ LET item == nz_days[1]["items"][1]
       IN /\ IsDict(item)
          /\ {"id", "cost", "cost_usd", "google_maps_url"} \subseteq DOMAIN item
          /\ item["cost_usd"] = 7
          /\ item["cost"] = 7
          /\ item["id"] = ItemId(1, 0)
          /\ item["google_maps_url"] = GmapsUrl("Tea ceremony", "Kyoto")

\* The items of the raw list that are dicts, by position (day, item).
RawItemPositions ==
    { <<j, i>> \in (DOMAIN nz_raw) \X (1..MaxRawItems + 1) :
        /\ IsDict(nz_raw[j])
        /\ "items" \in DOMAIN nz_raw[j]
        /\ i \in DOMAIN nz_raw[j]["items"]
        /\ IsDict(nz_raw[j]["items"][i]) }

RawItemAt(pos) == nz_raw[pos[1]]["items"][pos[2]]
ItemAt(pos) == nz_days[pos[1]]["items"][pos[2]]

\* The fields C11 names.
DefaultedFields ==
    {"id", "status", "delayed_to_day", "is_ai_suggested", "cost_usd",
     "cost_local", "currency", "google_maps_url"}

KeepsField(pos, k) ==
    k \in DOMAIN RawItemAt(pos) =>
        /\ k \in DOMAIN ItemAt(pos)
        /\ ItemAt(pos)[k] = RawItemAt(pos)[k]

\* C11 as stated: normalisation overwrites no explicit value: each of the
\* fields id, status, delayed_to_day, is_ai_suggested, cost_usd, cost_local,
\* currency and google_maps_url that an item carries before normalisation has
\* the same value after it.
C11_NeverOverwrites ==
    nz_pass >= 1 =>
        \A pos \in RawItemPositions : \A k \in DefaultedFields : KeepsField(pos, k)

\* C11 amended: the same, except that a google_maps_url that is present but
\* empty (or null) is replaced by the generated search URL; a non-empty
\* google_maps_url is kept.
C11_OverwritesOnlyEmptyUrl ==
    nz_pass >= 1 =>
        \A pos \in RawItemPositions :
            /\ \A k \in DefaultedFields \ {"google_maps_url"} : KeepsField(pos, k)
            /\ ~FalsyUrl(RawItemAt(pos)) => KeepsField(pos, "google_maps_url")
            /\ (FalsyUrl(RawItemAt(pos)) /\ "status" \in DOMAIN ItemAt(pos)) =>
                  ItemAt(pos)["google_maps_url"] # <<>>

\* C11 witness: a normalised item that kept its explicit id, cost_usd and URL
\* while its absent status was defaulted.
C11_Witness ==
    /\ nz_pass >= 1
    /\ \E pos \in RawItemPositions :
          /\ {"id", "cost_usd", "google_maps_url"} \subseteq DOMAIN RawItemAt(pos)
          /\ "status" \notin DOMAIN RawItemAt(pos)
          /\ RawItemAt(pos)["google_maps_url"] = <<"u">>
          /\ ItemAt(pos)["id"] = <<"x">>
          /\ ItemAt(pos)["cost_usd"] = 5
          /\ ItemAt(pos)["google_maps_url"] = <<"u">>
          /\ ItemAt(pos)["status"] = "planned"

\* C28: after normalisation of an itinerary whose raw items may or may not
\* carry an identifier, no two items of the same day share an identifier.
C28_UniqueIdsInDay ==
    nz_pass >= 1 =>
        \A p1 \in RawItemPositions, p2 \in RawItemPositions :
            (/\ p1[1] = p2[1] /\ p1[2] # p2[2]
             /\ "id" \in DOMAIN ItemAt(p1) /\ "id" \in DOMAIN ItemAt(p2))
                => ItemAt(p1)["id"] # ItemAt(p2)["id"]

-----------------------------------------------------------------------------
(* planning_agent.py: _parse_crew_result (lines 887-1008)                  *)

\* COUNTRIES, lines 374-383
COUNTRIES ==
    {"Japan", "France", "Italy", "Spain", "Thailand", "Germany", "UK", "USA",
     "Australia", "Brazil", "India", "China", "Mexico", "Greece", "Turkey",
     "Vietnam", "Cambodia", "Malaysia", "Indonesia", "Philippines",
     "Netherlands", "Portugal", "Switzerland", "Austria", "Czech Republic",
     "South Korea", "Morocco", "Egypt", "Argentina", "Colombia", "Peru",
     "New Zealand", "Ireland", "Croatia", "Norway", "Sweden", "Denmark",
     "Finland", "Belgium", "Poland", "Hungary", "Romania",
     "United States", "United Kingdom"}

\* _is_likely_country; the destinations of the model carry no outer blanks
IsLikelyCountry(destination) == destination \in COUNTRIES

\* the defaults table of lines 909-919 with its [f"{dest} City"] default
DefaultCities(dest) ==
    CASE dest = "Japan" -> <<"Tokyo", "Kyoto", "Osaka">>
      [] dest = "France" -> <<"Paris", "Nice", "Lyon">>
      [] dest = "Italy" -> <<"Rome", "Florence", "Venice">>
      [] dest = "Spain" -> <<"Barcelona", "Madrid", "Seville">>
      [] dest = "Thailand" -> <<"Bangkok", "Chiang Mai", "Phuket">>
      [] dest = "UK" -> <<"London", "Edinburgh", "Bath">>
      [] dest = "USA" -> <<"New York", "Los Angeles", "San Francisco">>
      [] dest = "Germany" -> <<"Berlin", "Munich", "Hamburg">>
      [] OTHER -> <<dest \o " City">>

\* _calc_duration over dates counted in days
CalcDuration(start, end) == (end - start) + 1

\* A task output: none at all, text json.loads rejects, or JSON text (bare
\* or inside a ``` fence) with the value it denotes.
NoOutput == [kind |-> "no_output", type |-> "none", elems |-> <<>>]
NonJson == [kind |-> "nonjson", type |-> "none", elems |-> <<>>]
JsonText(type, elems) == [kind |-> "json", type |-> type, elems |-> elems]
FencedJsonText(type, elems) == [kind |-> "fenced", type |-> type, elems |-> elems]

\* task.output.raw if task.output else "[]"
RawOf(out) == IF out.kind = "no_output" THEN JsonText("list", <<>>) ELSE out

\* _safe_json_parse: the fence is stripped, then json.loads parses or raises
SafeJsonParse(text) ==
    [raised |-> text.kind = "nonjson", type |-> text.type, elems |-> text.elems]

\* parsed_cities[:4]
FirstFour(list) == SubSeq(list, 1, Min(Len(list), 4))

Destinations == {"Japan", "Australia", "Paris"}

CityOutputs ==
    { NoOutput, NonJson,
      JsonText("object", <<>>),
      JsonText("list", <<>>),
      JsonText("list", <<"Tokyo", "Kyoto">>),
      FencedJsonText("list", <<"Osaka">>),
      JsonText("list", <<"Rome", "Florence", "Venice", "Milan", "Naples">>) }

\* A day as the itinerary task is asked to write it.
GoodDay(n) ==
    [day_number |-> n, city |-> "Kyoto",
     items |-> << [title |-> "Tea ceremony", cost |-> 7],
                  [title |-> "Fushimi Inari", location |-> "Fushimi Inari",
                   cost_usd |-> 5, google_maps_url |-> <<"u">>] >>]

ItinOutputs ==
    { NoOutput, NonJson,
      JsonText("object", <<>>),
      JsonText("scalar", <<>>),
      JsonText("list", <<>>),
      FencedJsonText("list", <<>>),
      JsonText("list", <<NonDict>>),
      JsonText("list", <<[day_number |-> 1, city |-> "Kyoto", items |-> NonList]>>),
      JsonText("list", <<[day_number |-> 1, city |-> "Kyoto",
                          items |-> <<[title |-> "Tea ceremony"], NonDict>>]>>),
      JsonText("list", <<GoodDay(1), NonDict>>),
      JsonText("list", <<[day_number |-> 1, city |-> "Kyoto", items |-> NonList],
                         GoodDay(2)>>),
      JsonText("list", <<[day_number |-> 1, city |-> "Kyoto"]>>),
      JsonText("list", <<GoodDay(1)>>),
      FencedJsonText("list", <<GoodDay(1), GoodDay(2)>>) }

\* lines 900-919 as a function of the destination and the city output
ParsedCities(dest, city_out) ==
    LET parsed_cities == SafeJsonParse(RawOf(city_out))
    IN IF parsed_cities.raised
          THEN IF IsLikelyCountry(dest) THEN DefaultCities(dest) ELSE <<dest>>
       ELSE IF parsed_cities.type = "list" /\ Len(parsed_cities.elems) > 0
          THEN FirstFour(parsed_cities.elems)
       ELSE <<dest>>

\* lines 965-994 as a function of the destination and the itinerary output
ParsedItinerary(dest, itin_out) ==
    LET parsed_itin == SafeJsonParse(RawOf(itin_out))
    IN IF parsed_itin.raised THEN <<>>
       ELSE IF parsed_itin.type = "list" /\ Len(parsed_itin.elems) > 0
          THEN NormalizeDays(parsed_itin.elems, dest).days
       ELSE <<>>

\* lines 996-997
WithFallback(itinerary, cities, duration) ==
    IF itinerary = <<>> THEN BuildFallbackItinerary(cities, duration)
    ELSE itinerary

\* _parse_crew_result: the cities and the itinerary of the plan it returns
ParseCrewResult(dest, start, end, city_out, itin_out) ==
    LET cities == ParsedCities(dest, city_out)
    IN [cities |-> cities,
        itinerary |-> WithFallback(ParsedItinerary(dest, itin_out), cities,
                                   CalcDuration(start, end))]

PsInit ==
    /\ ps_dest \in Destinations
    /\ ps_start = 0
    /\ ps_end \in 0..(MaxTripDays - 1)
    /\ ps_city_out \in CityOutputs
    /\ ps_itin_out \in ItinOutputs
    /\ ps_cities = <<>>
    /\ ps_itinerary = <<>>
    /\ ps_pc = "cities"

\* lines 900-919
PsParseCities ==
    /\ ps_pc = "cities"
    /\ ps_cities' = ParsedCities(ps_dest, ps_city_out)
    /\ ps_pc' = "bookings"
    /\ UNCHANGED <<ps_dest, ps_start, ps_end, ps_city_out, ps_itin_out, ps_itinerary>>
    /\ UNCHANGED notPs

\* lines 921-963: flights and hotels are looked up for the parsed cities;
\* neither cities nor itinerary is written
PsBookings ==
    /\ ps_pc = "bookings"
    /\ ps_pc' = "itinerary"
    /\ UNCHANGED <<ps_dest, ps_start, ps_end, ps_city_out, ps_itin_out,
                   ps_cities, ps_itinerary>>
    /\ UNCHANGED notPs

\* lines 965-994: itinerary is bound to the parsed list before the loop
\* runs, and an exception of the loop is swallowed
PsParseItinerary ==
    /\ ps_pc = "itinerary"
    /\ ps_itinerary' = ParsedItinerary(ps_dest, ps_itin_out)
    /\ ps_pc' = "fallback"
    /\ UNCHANGED <<ps_dest, ps_start, ps_end, ps_city_out, ps_itin_out, ps_cities>>
    /\ UNCHANGED notPs

\* lines 996-1008: if not itinerary: build the fallback; return
PsReturn ==
    /\ ps_pc = "fallback"
    /\ ps_itinerary' = WithFallback(ps_itinerary, ps_cities,
                                    CalcDuration(ps_start, ps_end))
    /\ ps_pc' = "done"
    /\ UNCHANGED <<ps_dest, ps_start, ps_end, ps_city_out, ps_itin_out, ps_cities>>
    /\ UNCHANGED notPs

PsNext == PsParseCities \/ PsBookings \/ PsParseItinerary \/ PsReturn

InitParse == PsInit /\ FbIdle /\ PkIdle /\ RtIdle /\ NzIdle /\ RnIdle /\ SrIdle /\ PlIdle /\ RgIdle /\ TpIdle /\ LgIdle

SpecParse == InitParse /\ [][PsNext]_vars

\* A day of the shape the plan needs: a dict whose items are dicts.
WellShapedDay(day) ==
    /\ IsDict(day)
    /\ \A i \in DOMAIN Get(day, "items", <<>>) : IsDict(Get(day, "items", <<>>)[i])

\* The itinerary output is missing, is not JSON, is JSON of the wrong shape
\* or is an empty list.
MalformedOrEmpty(out) ==
    \/ out.kind \in {"no_output", "nonjson"}
    \/ out.type # "list"
    \/ out.elems = <<>>
    \/ \E j \in DOMAIN out.elems : ~WellShapedDay(out.elems[j])

IsFallbackItinerary(itinerary, cities, duration) ==
    LET fallback == BuildFallbackItinerary(cities, duration)
    IN /\ Len(itinerary) = Len(fallback)
       /\ \A j \in DOMAIN itinerary :
            /\ DOMAIN itinerary[j] = DOMAIN fallback[j]
            /\ itinerary[j] = fallback[j]

\* C3: whenever the itinerary output is malformed or empty, the returned
\* itinerary is the fallback itinerary, with exactly totalDays days, and is
\* not empty.
C3_MalformedFallsBack ==
    (ps_pc = "done" /\ MalformedOrEmpty(ps_itin_out))
      => /\ IsFallbackItinerary(ps_itinerary, ps_cities,
                                CalcDuration(ps_start, ps_end))
         /\ Len(ps_itinerary) = CalcDuration(ps_start, ps_end)
         /\ ps_itinerary # <<>>

\* Every activity item (every dict in the items list of a day that is a
\* dict) carries the fields normalisation establishes.
EveryItemNormalised(itinerary) ==
    \A j \in DOMAIN itinerary :
        IsDict(itinerary[j]) =>
            \A i \in DOMAIN Get(itinerary[j], "items", <<>>) :
                LET item == Get(itinerary[j], "items", <<>>)[i]
                IN IsDict(item) =>
                      {"id", "status", "cost_usd", "cost_local", "google_maps_url"}
                          \subseteq DOMAIN item

\* C12: whatever list-shaped itinerary the LLM produced, every item of every
\* day of the returned itinerary has an id, a status, a cost_usd, a cost_local
\* and a google_maps_url.
C12_EveryItemNormalised ==
    ps_pc = "done" => EveryItemNormalised(ps_itinerary)

\* The city-selection output is not JSON, or is JSON that is not a list.
CityOutputMalformed(out) ==
    \/ out.kind = "nonjson"
    \/ out.kind \in {"json", "fenced"} /\ out.type # "list"

\* C13: whenever the city-selection output is malformed (non-JSON text or the
\* wrong shape), the resolved cities are the per-country default list (the
\* table of defaults, "<country> City" for a country the table lacks) when
\* the destination is a recognised country, and the destination alone when
\* it is not.
C13_MalformedCitiesDefault ==
    (ps_pc # "cities" /\ CityOutputMalformed(ps_city_out))
      => ps_cities = IF IsLikelyCountry(ps_dest) THEN DefaultCities(ps_dest)
                     ELSE <<ps_dest>>

\* The days of an itinerary that are dicts carrying a day_number and a city.
DayHas(day, k) == IsDict(day) /\ k \in DOMAIN day

\* C19: in every returned plan, LLM-made or fallback, the day numbers run
\* 1..trip length, every day is tagged with one of the chosen cities, and the
\* per-city day counts sum to the trip length (stated for the plans whose
\* days are all well-shaped).
C19_DaysMatchTrip ==
    (ps_pc = "done" /\ \A j \in DOMAIN ps_itinerary : WellShapedDay(ps_itinerary[j])) =>
        LET duration == CalcDuration(ps_start, ps_end)
            DaysOf(city) == {j \in DOMAIN ps_itinerary : ps_itinerary[j]["city"] = city}
        IN /\ Len(ps_itinerary) = duration
           /\ \A j \in DOMAIN ps_itinerary :
                 /\ DayHas(ps_itinerary[j], "day_number")
                 /\ DayHas(ps_itinerary[j], "city")
                 /\ ps_itinerary[j]["day_number"] = j
                 /\ ps_itinerary[j]["city"] \in Range(ps_cities)
           /\ SumSeq([c \in DOMAIN ps_cities |->
                        IF \E b \in 1..(c - 1) : ps_cities[b] = ps_cities[c] THEN 0
                        ELSE Cardinality(DaysOf(ps_cities[c]))]) = duration

\* C20: in every returned plan each item other than the first of its day
\* carries a (possibly empty) travel_info.
C20_PlanIsEnriched ==
    ps_pc = "done" =>
        \A j \in DOMAIN ps_itinerary :
            IsDict(ps_itinerary[j]) =>
                \A i \in DOMAIN Get(ps_itinerary[j], "items", <<>>) :
                    LET item == Get(ps_itinerary[j], "items", <<>>)[i]
                    IN (i >= 2 /\ IsDict(item)) => "travel_info" \in DOMAIN item

-----------------------------------------------------------------------------
(* planning_agent.py: TripPlanner.plan_trip (lines 1051-1105) and          *)
(* TripPlanner.plan_trip_stream (lines 1107-1268)                          *)

Research == "DestinationResearcher"
CitySel == "CitySelector"
Flights == "FlightFinder"
Hotels == "AccommodationFinder"
Planner == "ItineraryPlanner"

Stages == {Research, CitySel, Flights, Hotels, Planner}
Modes2 == {"sync", "stream"}

\* the crews of the three phases
PhaseStages(n) ==
    CASE n = "phase1" -> {Research, CitySel}
      [] n = "phase2" -> {Flights, Hotels}
      [] n = "phase3" -> {Planner}

\* the order in which a phase's results are awaited: the tasks of the
\* sequential crew, f_flight.result() before f_accom.result()
PhaseOrder(n) ==
    CASE n = "phase1" -> <<Research, CitySel>>
      [] n = "phase2" -> <<Flights, Hotels>>
      [] n = "phase3" -> <<Planner>>

NextPhase(n) ==
    CASE n = "phase1" -> "phase2"
      [] n = "phase2" -> "phase3"
      [] n = "phase3" -> "parse"

\* the stages a phase sets running when it starts: the first task of the
\* sequential crew, both mini crews of the pool
PhaseEntry(n) ==
    CASE n = "phase1" -> {Research}
      [] n = "phase2" -> {Flights, Hotels}
      [] n = "phase3" -> {Planner}

\* str(exc) of the exception a stage raises
ExcMessage(a) == <<"failed:", a>>
NoError == <<>>

AllIdle == [a \in Stages |-> "idle"]
Holder0 == [done |-> FALSE, error |-> NoError]
NoPlan == [set |-> FALSE, cities |-> <<>>, itinerary |-> <<>>]

\* kickoff returns or raises as soon as research is over
PhaseOverAfterFirstTask(n, stage) ==
    stage[PhaseOrder(n)[1]] \in {"done", "raised"}

\* kickoff of the phase's crew(s) has returned or raised: a sequential crew
\* stops at the task that raises; the pool is left when both futures are over
PhaseOver(n, stage) ==
    IF n = "phase1"
       THEN stage[Research] = "raised" \/ stage[CitySel] \in {"done", "raised"}
       ELSE \A a \in PhaseStages(n) : stage[a] \in {"done", "raised"}

\* the exception the phase ends in: the first awaited stage that raised
PhaseError(n, stage) ==
    LET order == PhaseOrder(n)
        bad == {i \in DOMAIN order : stage[order[i]] = "raised"}
    IN IF bad = {} THEN NoError
       ELSE ExcMessage(order[CHOOSE i \in bad : \A k \in bad : i <= k])

\* the error test of lines 1180, 1223, 1255 never taken
PhaseFailedIgnored(holder) == FALSE

\* if result_holder.get("error")
PhaseFailed(holder) == holder.error # NoError

ProgressEvent(agent, status) ==
    [type |-> "progress", agent |-> agent, status |-> status, message |-> <<agent, status>>]

ErrorEvent(message) ==
    [type |-> "error", agent |-> "Orchestrator", status |-> "error", message |-> message]

CompleteEvent ==
    [type |-> "complete", agent |-> "Orchestrator", status |-> "complete",
     message |-> <<"Trip planning complete!">>]

\* the queue drained from its newest end (pop() for pop(0))
RECURSIVE DrainEventsNewestFirst(_, _, _)
DrainEventsNewestFirst(queue, started, out) ==
    IF queue = <<>> THEN [events |-> out, started |-> started]
    ELSE LET event == queue[Len(queue)]
             rest == SubSeq(queue, 1, Len(queue) - 1)
         IN IF event.agent \notin started
               THEN DrainEventsNewestFirst(rest, started \cup {event.agent},
                                           out \o <<ProgressEvent(event.agent, "running"), event>>)
               ELSE DrainEventsNewestFirst(rest, started, out \o <<event>>)

\* the queue drained without the test of line 1129
RECURSIVE DrainEventsUnannounced(_, _, _)
DrainEventsUnannounced(queue, started, out) ==
    IF queue = <<>> THEN [events |-> out, started |-> started]
    ELSE DrainEventsUnannounced(Tail(queue), started, out \o <<Head(queue)>>)

\* _drain_events: every queued event is yielded, preceded by a "running"
\* event for an agent not yet announced
RECURSIVE DrainEvents(_, _, _)
DrainEvents(queue, started, out) ==
    IF queue = <<>> THEN [events |-> out, started |-> started]
    ELSE LET event == Head(queue)
         IN IF event.agent \notin started
               THEN DrainEvents(Tail(queue), started \cup {event.agent},
                                out \o <<ProgressEvent(event.agent, "running"), event>>)
               ELSE DrainEvents(Tail(queue), started, out \o <<event>>)

\* the yields that announce a phase (lines 1152-1157, 1186-1196, 1229-1234)
RECURSIVE Announce(_)
Announce(order) ==
    IF order = <<>> THEN <<>>
    ELSE <<ProgressEvent(Head(order), "running")>> \o Announce(Tail(order))

PhaseAnnounced(n) == IF n = "phase1" THEN <<Research>> ELSE PhaseOrder(n)

\* the complete event carries the plan without the fallback applied
StreamPlanUnparsed(in) ==
    [set |-> TRUE, cities |-> ParsedCities(in.dest, in.city_out),
     itinerary |-> ParsedItinerary(in.dest, in.itin_out)]

\* line 1260: plan_data = _parse_crew_result(tasks, trip_data)
StreamPlan(in) ==
    LET plan == ParseCrewResult(in.dest, 0, in.end, in.city_out, in.itin_out)
    IN [set |-> TRUE, cities |-> plan.cities, itinerary |-> plan.itinerary]

\* line 1105: return _parse_crew_result(tasks, trip_data)
SyncPlan(in) ==
    LET plan == ParseCrewResult(in.dest, 0, in.end, in.city_out, in.itin_out)
    IN [set |-> TRUE, cities |-> plan.cities, itinerary |-> plan.itinerary]

RunInputs ==
    [dest : {"Japan"},
     end : {0, 1},
     city_out : {NonJson, JsonText("list", <<"Tokyo", "Kyoto">>)},
     itin_out : {NonJson, JsonText("list", <<GoodDay(1)>>),
                 JsonText("list", <<NonDict>>)},
     raises : SUBSET Stages]

RnInit ==
    /\ rn_in \in RunInputs
    /\ rn_todo = Modes2
    /\ rn_mode = "none"
    /\ rn_pc = "idle"
    /\ rn_stage = [m \in Modes2 |-> AllIdle]
    /\ rn_holder = Holder0
    /\ rn_progress = <<>>
    /\ rn_started = {}
    /\ rn_events = <<>>
    /\ rn_plan = [m \in Modes2 |-> NoPlan]
    /\ rn_outcome = [m \in Modes2 |-> "none"]
    /\ rn_exc = NoError

PhaseNames == {"phase1", "phase2", "phase3"}

Entered(n) == [a \in Stages |-> IF a \in PhaseEntry(n) THEN "running" ELSE "idle"]
Enter(stage, n) == [a \in Stages |-> IF a \in PhaseEntry(n) THEN "running" ELSE stage[a]]

\* A task of a crew finishes or raises; a finished task runs its callback
\* (lines 692-701: on_progress is None in plan_trip), and the sequential
\* phase-1 crew goes on to city selection
StageFinish ==
    /\ rn_mode \in Modes2
    /\ rn_pc \in PhaseNames
    /\ \E a \in PhaseStages(rn_pc) :
         /\ rn_stage[rn_mode][a] = "running"
         /\ LET ok == a \notin rn_in.raises
                st1 == [rn_stage[rn_mode] EXCEPT ![a] = IF ok THEN "done" ELSE "raised"]
                st2 == IF ok /\ a = Research
                          THEN [st1 EXCEPT ![CitySel] = "running"] ELSE st1
            IN /\ rn_stage' = [rn_stage EXCEPT ![rn_mode] = st2]
               /\ rn_progress' = IF ok /\ rn_mode = "stream"
                                    THEN Append(rn_progress, ProgressEvent(a, "done"))
                                    ELSE rn_progress
    /\ UNCHANGED <<rn_in, rn_todo, rn_mode, rn_pc, rn_holder, rn_started,
                   rn_events, rn_plan, rn_outcome, rn_exc>>
    /\ UNCHANGED notRn

\* plan_trip lines 1059-1076: build the tasks, kick off phase 1
SyncStart ==
    /\ rn_pc \in {"idle", "complete", "failed"}
    /\ "sync" \in rn_todo
    /\ rn_todo' = rn_todo \ {"sync"}
    /\ rn_mode' = "sync"
    /\ rn_pc' = "phase1"
    /\ rn_stage' = [rn_stage EXCEPT !["sync"] = Entered("phase1")]
    /\ rn_exc' = NoError
    /\ UNCHANGED <<rn_in, rn_holder, rn_progress, rn_started, rn_events,
                   rn_plan, rn_outcome>>
    /\ UNCHANGED notRn

\* plan_trip lines 1076-1105: a phase's kickoff returns or raises; an
\* exception propagates out of plan_trip, otherwise the next phase starts,
\* and after phase 3 the parsed plan is returned
SyncPhaseEnd ==
    /\ rn_mode = "sync"
    /\ rn_pc \in PhaseNames
    /\ PhaseOver(rn_pc, rn_stage["sync"])
    /\ LET err == PhaseError(rn_pc, rn_stage["sync"])
       IN IF err # NoError
             THEN /\ rn_pc' = "failed"
                  /\ rn_exc' = err
                  /\ rn_outcome' = [rn_outcome EXCEPT !["sync"] = "failed"]
                  /\ UNCHANGED <<rn_stage, rn_plan>>
          ELSE IF rn_pc = "phase3"
             THEN /\ rn_pc' = "complete"
                  /\ rn_plan' = [rn_plan EXCEPT !["sync"] = SyncPlan(rn_in)]
                  /\ rn_outcome' = [rn_outcome EXCEPT !["sync"] = "complete"]
                  /\ UNCHANGED <<rn_stage, rn_exc>>
          ELSE /\ rn_pc' = NextPhase(rn_pc)
               /\ rn_stage' = [rn_stage EXCEPT !["sync"] = Enter(@, NextPhase(rn_pc))]
               /\ UNCHANGED <<rn_plan, rn_outcome, rn_exc>>
    /\ UNCHANGED <<rn_in, rn_todo, rn_mode, rn_holder, rn_progress, rn_started,
                   rn_events>>
    /\ UNCHANGED notRn

\* plan_trip_stream lines 1139-1173: the first yield, the phase-1 thread
StreamStart ==
    /\ rn_pc \in {"idle", "complete", "failed"}
    /\ "stream" \in rn_todo
    /\ rn_todo' = rn_todo \ {"stream"}
    /\ rn_mode' = "stream"
    /\ rn_pc' = "phase1"
    /\ rn_stage' = [rn_stage EXCEPT !["stream"] = Entered("phase1")]
    /\ rn_holder' = Holder0
    /\ rn_progress' = <<>>
    /\ rn_started' = {Research}
    /\ rn_events' = Announce(PhaseAnnounced("phase1"))
    /\ UNCHANGED <<rn_in, rn_plan, rn_outcome, rn_exc>>
    /\ UNCHANGED notRn

\* lines 1175-1177 (1218-1220, 1250-1252): the polling loop drains the queue
StreamPoll ==
    /\ rn_mode = "stream"
    /\ rn_pc \in PhaseNames
    /\ ~rn_holder.done
    /\ rn_progress # <<>>
    /\ LET d == DrainEvents(rn_progress, rn_started, rn_events)
       IN /\ rn_events' = d.events
          /\ rn_started' = d.started
    /\ rn_progress' = <<>>
    /\ UNCHANGED <<rn_in, rn_todo, rn_mode, rn_pc, rn_stage, rn_holder,
                   rn_plan, rn_outcome, rn_exc>>
    /\ UNCHANGED notRn

\* lines 1126-1137: one turn of the loop of _drain_events; the generator is
\* suspended at each yield until the consumer asks for the next event, and
\* callbacks may append in between
StreamYieldOne ==
    /\ rn_mode = "stream"
    /\ rn_pc \in PhaseNames
    /\ ~rn_holder.done
    /\ rn_progress # <<>>
    /\ LET d == DrainEvents(<<Head(rn_progress)>>, rn_started, rn_events)
       IN /\ rn_events' = d.events
          /\ rn_started' = d.started
    /\ rn_progress' = Tail(rn_progress)
    /\ UNCHANGED <<rn_in, rn_todo, rn_mode, rn_pc, rn_stage, rn_holder,
                   rn_plan, rn_outcome, rn_exc>>
    /\ UNCHANGED notRn

\* run_phase1/2/3 (lines 1159-1170, 1200-1213, 1238-1245): the thread records
\* the outcome of the phase in result_holder
StreamThreadEnd ==
    /\ rn_mode = "stream"
    /\ rn_pc \in PhaseNames
    /\ ~rn_holder.done
    /\ PhaseOver(rn_pc, rn_stage["stream"])
    /\ rn_holder' = [done |-> TRUE, error |-> PhaseError(rn_pc, rn_stage["stream"])]
    /\ UNCHANGED <<rn_in, rn_todo, rn_mode, rn_pc, rn_stage, rn_progress,
                   rn_started, rn_events, rn_plan, rn_outcome, rn_exc>>
    /\ UNCHANGED notRn

\* lines 1178-1198 (1221-1236, 1253-1268): the last drain of a phase, then
\* the error event and return, or the next phase, or the complete event
StreamPhaseEnd ==
    /\ rn_mode = "stream"
    /\ rn_pc \in PhaseNames
    /\ rn_holder.done
    /\ rn_progress' = <<>>
    /\ LET d == DrainEvents(rn_progress, rn_started, rn_events)
       IN IF PhaseFailed(rn_holder)
             THEN /\ rn_events' = Append(d.events, ErrorEvent(rn_holder.error))
                  /\ rn_started' = d.started
                  /\ rn_pc' = "failed"
                  /\ rn_outcome' = [rn_outcome EXCEPT !["stream"] = "failed"]
                  /\ UNCHANGED <<rn_stage, rn_holder, rn_plan>>
          ELSE IF rn_pc = "phase3"
             THEN /\ rn_events' = Append(d.events, CompleteEvent)
                  /\ rn_started' = d.started
                  /\ rn_plan' = [rn_plan EXCEPT !["stream"] = StreamPlan(rn_in)]
                  /\ rn_pc' = "complete"
                  /\ rn_outcome' = [rn_outcome EXCEPT !["stream"] = "complete"]
                  /\ UNCHANGED <<rn_stage, rn_holder>>
          ELSE /\ rn_events' = d.events \o Announce(PhaseAnnounced(NextPhase(rn_pc)))
               /\ rn_started' = d.started \cup PhaseStages(NextPhase(rn_pc))
               /\ rn_holder' = Holder0
               /\ rn_stage' = [rn_stage EXCEPT !["stream"] = Enter(@, NextPhase(rn_pc))]
               /\ rn_pc' = NextPhase(rn_pc)
               /\ UNCHANGED <<rn_plan, rn_outcome>>
    /\ UNCHANGED <<rn_in, rn_todo, rn_mode, rn_exc>>
    /\ UNCHANGED notRn

RnNext ==
    \/ SyncStart \/ StreamStart \/ StageFinish
    \/ SyncPhaseEnd \/ StreamPoll \/ StreamYieldOne \/ StreamThreadEnd
    \/ StreamPhaseEnd

InitRun == RnInit /\ FbIdle /\ PkIdle /\ RtIdle /\ PsIdle /\ NzIdle /\ SrIdle /\ PlIdle /\ RgIdle /\ TpIdle /\ LgIdle

SpecRun == InitRun /\ [][RnNext]_vars

-----------------------------------------------------------------------------
(* agents.py: TripPlanner.plan_trip_stream (lines 528-674), the generator  *)
(* that runs all five tasks as one sequential crew                         *)

\* agent_order, lines 537-543; also the order of the crew's tasks
AgentOrder == <<Research, CitySel, Flights, Hotels, Planner>>

IndexOf(a) == CHOOSE i \in DOMAIN AgentOrder : AgentOrder[i] = a

\* yielded_agents (line 611): the agents whose done event the polling loop
\* has yielded
Yielded(events) ==
    {events[i].agent : i \in {j \in DOMAIN events :
                                 events[j].type = "progress" /\ events[j].status = "done"}}

\* lines 617-634: the first agent neither started nor yielded is announced as
\* running when every agent before it has been yielded
GuessRunning(started, events) ==
    LET yielded == Yielded(events)
        open == {i \in DOMAIN AgentOrder :
                    AgentOrder[i] \notin started /\ AgentOrder[i] \notin yielded}
    IN IF open = {} THEN {}
       ELSE LET idx == CHOOSE i \in open : \A k \in open : i <= k
            IN IF idx = 1 \/ \A k \in 1..(idx - 1) : AgentOrder[k] \in yielded
                  THEN {AgentOrder[idx]} ELSE {}

\* crew.kickoff() has returned or raised
CrewOver(stage) ==
    stage[Planner] = "done" \/ \E a \in Stages : stage[a] = "raised"

CrewError(stage) ==
    IF \E a \in Stages : stage[a] = "raised"
       THEN ExcMessage(CHOOSE a \in Stages : stage[a] = "raised")
       ELSE NoError

LgInit ==
    /\ lg_raises \in SUBSET Stages
    /\ lg_pc = "new"
    /\ lg_stage = AllIdle
    /\ lg_holder = Holder0
    /\ lg_progress = <<>>
    /\ lg_started = {}
    /\ lg_events = <<>>

\* lines 588-592: the crew thread is started
LgStart ==
    /\ lg_pc = "new"
    /\ lg_pc' = "check"
    /\ lg_stage' = [lg_stage EXCEPT ![Research] = "running"]
    /\ UNCHANGED <<lg_raises, lg_holder, lg_progress, lg_started, lg_events>>
    /\ UNCHANGED notLg

\* a task of the crew finishes (its callback appends the done event and the
\* next task starts) or raises (kickoff raises)
LgTaskFinish ==
    /\ lg_pc \in {"check", "drain", "final"}
    /\ \E a \in Stages :
         /\ lg_stage[a] = "running"
         /\ IF a \in lg_raises
               THEN /\ lg_stage' = [lg_stage EXCEPT ![a] = "raised"]
                    /\ UNCHANGED lg_progress
               ELSE /\ lg_stage' = [b \in Stages |->
                                       IF b = a THEN "done"
                                       ELSE IF IndexOf(b) = IndexOf(a) + 1 THEN "running"
                                       ELSE lg_stage[b]]
                    /\ lg_progress' = Append(lg_progress, ProgressEvent(a, "done"))
    /\ UNCHANGED <<lg_raises, lg_pc, lg_holder, lg_started, lg_events>>
    /\ UNCHANGED notLg

\* run_crew, lines 580-586
LgThreadEnd ==
    /\ lg_pc \in {"check", "drain", "final"}
    /\ ~lg_holder.done
    /\ CrewOver(lg_stage)
    /\ lg_holder' = [done |-> TRUE, error |-> CrewError(lg_stage)]
    /\ UNCHANGED <<lg_raises, lg_pc, lg_stage, lg_progress, lg_started, lg_events>>
    /\ UNCHANGED notLg

\* line 594: while not result_holder["done"]
LgCheck ==
    /\ lg_pc = "check"
    /\ lg_pc' = IF lg_holder.done THEN "final" ELSE "drain"
    /\ UNCHANGED <<lg_raises, lg_stage, lg_holder, lg_progress, lg_started, lg_events>>
    /\ UNCHANGED notLg

\* lines 596-614 and 639-652: one turn of a drain loop
LgYieldOne ==
    /\ lg_pc \in {"drain", "final"}
    /\ lg_progress # <<>>
    /\ LET d == DrainEvents(<<Head(lg_progress)>>, lg_started, lg_events)
       IN /\ lg_events' = d.events
          /\ lg_started' = d.started
    /\ lg_progress' = Tail(lg_progress)
    /\ UNCHANGED <<lg_raises, lg_pc, lg_stage, lg_holder>>
    /\ UNCHANGED notLg

\* lines 616-636: the queue is empty; guess the running agent, sleep
LgGuess ==
    /\ lg_pc = "drain"
    /\ lg_progress = <<>>
    /\ LET g == GuessRunning(lg_started, lg_events)
       IN /\ lg_started' = lg_started \cup g
          /\ lg_events' = IF g = {} THEN lg_events
                          ELSE Append(lg_events,
                                      ProgressEvent(CHOOSE a \in g : TRUE, "running"))
    /\ lg_pc' = "check"
    /\ UNCHANGED <<lg_raises, lg_stage, lg_holder, lg_progress>>
    /\ UNCHANGED notLg

\* lines 654-674: the error event, or the complete event
LgEnd ==
    /\ lg_pc = "final"
    /\ lg_progress = <<>>
    /\ IF PhaseFailed(lg_holder)
          THEN /\ lg_events' = Append(lg_events, ErrorEvent(lg_holder.error))
               /\ lg_pc' = "failed"
          ELSE /\ lg_events' = Append(lg_events, CompleteEvent)
               /\ lg_pc' = "complete"
    /\ UNCHANGED <<lg_raises, lg_stage, lg_holder, lg_progress, lg_started>>
    /\ UNCHANGED notLg

LgNext ==
    \/ LgStart \/ LgTaskFinish \/ LgThreadEnd \/ LgCheck
    \/ LgYieldOne \/ LgGuess \/ LgEnd

\* a run of either generator
InitStreams ==
    \/ RnInit /\ FbIdle /\ PkIdle /\ RtIdle /\ PsIdle /\ NzIdle /\ SrIdle /\ PlIdle /\ RgIdle /\ TpIdle /\ LgIdle
    \/ LgInit /\ FbIdle /\ PkIdle /\ RtIdle /\ PsIdle /\ NzIdle /\ RnIdle /\ SrIdle /\ PlIdle /\ RgIdle /\ TpIdle

StreamsNext == RnNext \/ LgNext

SpecStreams == InitStreams /\ [][StreamsNext]_vars

-----------------------------------------------------------------------------
(* Claims on the planning runs                                             *)

ErrorEvents == {i \in DOMAIN rn_events : rn_events[i].type = "error"}
CompleteEvents == {i \in DOMAIN rn_events : rn_events[i].type = "complete"}
StageRaised(m) == {a \in Stages : rn_stage[m][a] = "raised"}

LaterStages(n) ==
    CASE n = "phase1" -> {Flights, Hotels, Planner}
      [] n = "phase2" -> {Planner}
      [] n = "phase3" -> {}

\* C15: if a phase of a streamed run raises, the stream yields exactly one
\* error event carrying the exception message, that event is the last one, no
\* complete event is yielded, and no later phase is started.
C15_ErrorIsTerminal ==
    /\ Cardinality(ErrorEvents) <= 1
    /\ \A i \in ErrorEvents :
          /\ i = Len(rn_events)
          /\ rn_outcome["stream"] = "failed"
          /\ \E a \in StageRaised("stream") : rn_events[i].message = ExcMessage(a)
    /\ StageRaised("stream") # {} =>
          /\ CompleteEvents = {}
          /\ rn_outcome["stream"] # "complete"
          /\ ~rn_plan["stream"].set
    /\ (StageRaised("stream") # {} /\ rn_outcome["stream"] # "none") =>
          /\ rn_outcome["stream"] = "failed"
          /\ Cardinality(ErrorEvents) = 1
    /\ \A n \in PhaseNames :
          (PhaseStages(n) \cap StageRaised("stream") # {}) =>
              \A a \in LaterStages(n) : rn_stage["stream"][a] = "idle"

\* C15 witness: a stream that failed in phase 2 (the flight search raised)
\* after yielding progress events, its last event being the error event.
C15_Witness ==
    /\ rn_outcome["stream"] = "failed"
    /\ rn_stage["stream"][Flights] = "raised"
    /\ rn_stage["stream"][Hotels] = "done"
    /\ Len(rn_events) >= 4
    /\ rn_events[Len(rn_events)] = ErrorEvent(ExcMessage(Flights))

\* C16: in every run, streaming or not, research and city selection both
\* finish before flight or hotel search starts; the two searches start
\* together and both finish before itinerary generation starts; itinerary
\* generation finishes before the run completes; nothing runs or starts once
\* the run has failed.
C16_StageOrder ==
    \A m \in Modes2 :
        LET st == rn_stage[m]
        IN /\ st[CitySel] # "idle" => st[Research] = "done"
           /\ (st[Flights] # "idle" \/ st[Hotels] # "idle") =>
                 st[Research] = "done" /\ st[CitySel] = "done"
           /\ (st[Flights] = "idle") <=> (st[Hotels] = "idle")
           /\ st[Planner] # "idle" => st[Flights] = "done" /\ st[Hotels] = "done"
           /\ rn_outcome[m] = "complete" => st[Planner] = "done"
           /\ rn_outcome[m] = "failed" =>
                 /\ \A a \in Stages : st[a] # "running"
                 /\ \E n \in PhaseNames :
                       /\ PhaseStages(n) \cap StageRaised(m) # {}
                       /\ \A a \in LaterStages(n) : st[a] = "idle"

\* C16 witness: in a streamed run the hotel search has finished while the
\* flight search is still running, and a run of the other kind has completed.
C16_Witness ==
    /\ rn_mode = "stream"
    /\ rn_stage["stream"][Flights] = "running"
    /\ rn_stage["stream"][Hotels] = "done"
    /\ rn_outcome["sync"] = "complete"
    /\ rn_stage["sync"][Planner] = "done"

IsDone(e) == e.type = "progress" /\ e.status = "done"
IsTerminal(e) == e.type \in {"complete", "error"}

\* the done events in the order the consumer received them
DoneOf(events) == SelectSeq(events, IsDone)

IsPrefix(s, t) == Len(s) <= Len(t) /\ SubSeq(t, 1, Len(s)) = s

\* the callbacks' events of a run: those yielded, then those still queued
RnHistory == DoneOf(rn_events) \o rn_progress
LgHistory == DoneOf(lg_events) \o lg_progress

\* every finished task's event is in the history exactly once and no other
\* event is; a run that is over has an empty queue and its terminal event
\* last; a run that is not over has yielded no terminal event
Delivery(history, events, stage, over) ==
    /\ \A a \in Stages :
          Cardinality({i \in DOMAIN history : history[i].agent = a})
             = IF stage[a] = "done" THEN 1 ELSE 0
    /\ \A i \in DOMAIN history : IsDone(history[i])
    /\ \A i \in DOMAIN events : IsTerminal(events[i]) <=> (over /\ i = Len(events))
    /\ over => Len(events) > 0 /\ DoneOf(events) = history

RnOver == rn_outcome["stream"] # "none"
LgOver == lg_pc \in {"complete", "failed"}

\* C25: in a streamed run every progress event appended by a task callback
\* is yielded exactly once, in the order it was appended and before the
\* terminal complete or error event, however late the generator is resumed
\* and however the two search workers interleave: the yielded done events
\* followed by the queue only ever grow at the end, hold each finished
\* task's event once, and are all yielded when the terminal event is.
C25_EveryEventDeliveredInOrder ==
    /\ [](/\ "stream" \in DOMAIN rn_outcome => Delivery(RnHistory, rn_events, rn_stage["stream"], RnOver)
          /\ lg_pc # "idle" => Delivery(LgHistory, lg_events, lg_stage, LgOver))
    /\ [][IsPrefix(RnHistory, RnHistory') /\ IsPrefix(LgHistory, LgHistory')]_vars

\* C25 witness: a completed phased stream in which the hotel search finished
\* first, so its event was appended and yielded before the flight search's,
\* and all five done events were yielded before the complete event.
C25_Witness ==
    /\ "stream" \in DOMAIN rn_outcome
    /\ rn_outcome["stream"] = "complete"
    /\ rn_progress = <<>>
    /\ DoneOf(rn_events) = <<ProgressEvent(Research, "done"), ProgressEvent(CitySel, "done"),
                             ProgressEvent(Hotels, "done"), ProgressEvent(Flights, "done"),
                             ProgressEvent(Planner, "done")>>
    /\ rn_events[Len(rn_events)] = CompleteEvent

RunningAt(events, a) ==
    {i \in DOMAIN events : events[i].agent = a /\ events[i].status = "running"}
DoneAt(events, a) ==
    {i \in DOMAIN events : events[i].agent = a /\ events[i].status = "done"}

AnnouncedOnce(events) ==
    \A a \in Stages :
        /\ Cardinality(RunningAt(events, a)) <= 1
        /\ \A j \in DoneAt(events, a) : \E i \in RunningAt(events, a) : i < j

\* C30: in every streamed run at most one running event is yielded for each
\* agent, and every done event that reaches the consumer comes after the
\* running event of the same agent.
C30_RunningBeforeDone ==
    AnnouncedOnce(rn_events) /\ AnnouncedOnce(lg_events)

\* C30 witness: a completed phased stream with five running events, the city
\* selector's yielded by the drain right before its done event.
C30_Witness ==
    /\ "stream" \in DOMAIN rn_outcome
    /\ rn_outcome["stream"] = "complete"
    /\ \A a \in Stages : Cardinality(RunningAt(rn_events, a)) = 1
    /\ \E j \in DOMAIN rn_events :
          /\ j > 1
          /\ rn_events[j] = ProgressEvent(CitySel, "done")
          /\ rn_events[j - 1] = ProgressEvent(CitySel, "running")

-----------------------------------------------------------------------------
(* FlightAgent.py search_flights, AccomAgent.py search_hotels, and their   *)
(* callers in planning_agent.py: search_flights_tool (lines 470-502),      *)
(* search_accommodations_tool (505-533), _parse_crew_result (921-963)      *)

\* What one request to the Amadeus SDK does: offers that normalise to rows,
\* offers that normalise to nothing, no offers, or a ResponseError (network
\* failure, non-success status, timeout as the SDK reports them).
SdkOutcomes == {"offers", "unusable", "empty", "error"}

\* search_flights with "except ResponseError" left out
SearchFlightsUncaught(creds, sdk) ==
    IF ~creds THEN "mock"
    ELSE IF sdk = "error" THEN "raise"
    ELSE sdk

\* FlightAgent.search_flights: mock offers without credentials, the offers of
\* the SDK, or the one-element error list on ResponseError
SearchFlights(creds, sdk) ==
    IF ~creds THEN "mock"
    ELSE IF sdk = "error" THEN "error"
    ELSE sdk

\* AccomAgent.search_hotels
SearchHotels(creds, sdk) ==
    IF ~creds THEN "mock"
    ELSE IF sdk = "error" THEN "error"
    ELSE sdk

\* search_flights_tool lines 492-502 (search_accommodations_tool 524-533):
\* the list the tool caches and returns
ToolOffers(results) ==
    IF results \in {"empty", "error"} THEN "mock"
    ELSE IF results = "mock" THEN "mock"
    ELSE IF results = "offers" THEN "live"
    ELSE "none"

\* lines 926-927, 947-948: a cached list that is not empty
CacheHit(cache, key) == key \in DOMAIN cache /\ cache[key] # "none"

\* lines 933-940 (951-957): the offers result parsing makes of a provider answer
ParsedOffers(results) ==
    IF results \in {"empty", "error"} THEN "mock"
    ELSE IF results = "mock" THEN "mock"
    ELSE IF results = "offers" THEN "live"
    ELSE "mock"

\* the parameter tuples a search is made with: the one result parsing uses
\* ("trip", or the city for hotels) and another one
FlightKeys == {"trip", "other"}
HotelKeys == {"Tokyo", "Kyoto", "other"}

Unset == [kind |-> "unset", outcome |-> "unset"]
SeenOutcome(creds, sdk) == IF creds THEN sdk ELSE "nocreds"

SrInit ==
    /\ sr_creds \in BOOLEAN
    /\ sr_cities \in {<<"Tokyo">>, <<"Tokyo", "Kyoto">>}
    /\ sr_flight_cache = <<>>
    /\ sr_hotel_cache = <<>>
    /\ sr_flight_ext = [k \in FlightKeys |-> 0]
    /\ sr_hotel_ext = [k \in HotelKeys |-> 0]
    /\ sr_tools = 0
    /\ sr_pc = "crew"
    /\ sr_flights = Unset
    /\ sr_hotels = <<>>

\* search_flights_tool: the provider function is called on every tool call,
\* then the result is cached
FlightToolCall ==
    /\ sr_pc = "crew"
    /\ sr_tools < MaxToolCalls
    /\ \E key \in FlightKeys, sdk \in SdkOutcomes :
         LET results == SearchFlights(sr_creds, sdk)
         IN /\ sr_flight_ext' = IF sr_creds THEN [sr_flight_ext EXCEPT ![key] = @ + 1]
                                ELSE sr_flight_ext
            /\ sr_flight_cache' = IF results = "raise" THEN sr_flight_cache
                                  ELSE SetKey(sr_flight_cache, key, ToolOffers(results))
    /\ sr_tools' = sr_tools + 1
    /\ UNCHANGED <<sr_creds, sr_cities, sr_hotel_cache, sr_hotel_ext, sr_pc,
                   sr_flights, sr_hotels>>
    /\ UNCHANGED notSr

\* search_accommodations_tool
HotelToolCall ==
    /\ sr_pc = "crew"
    /\ sr_tools < MaxToolCalls
    /\ \E key \in HotelKeys, sdk \in SdkOutcomes :
         LET results == SearchHotels(sr_creds, sdk)
         IN /\ sr_hotel_ext' = IF sr_creds THEN [sr_hotel_ext EXCEPT ![key] = @ + 1]
                               ELSE sr_hotel_ext
            /\ sr_hotel_cache' = IF results = "raise" THEN sr_hotel_cache
                                 ELSE SetKey(sr_hotel_cache, key, ToolOffers(results))
    /\ sr_tools' = sr_tools + 1
    /\ UNCHANGED <<sr_creds, sr_cities, sr_flight_cache, sr_flight_ext, sr_pc,
                   sr_flights, sr_hotels>>
    /\ UNCHANGED notSr

\* the crews have finished; _parse_crew_result starts
CrewsDone ==
    /\ sr_pc = "crew"
    /\ sr_pc' = "flights"
    /\ UNCHANGED <<sr_creds, sr_cities, sr_flight_cache, sr_hotel_cache,
                   sr_flight_ext, sr_hotel_ext, sr_tools, sr_flights, sr_hotels>>
    /\ UNCHANGED notSr

\* _parse_crew_result lines 921-940: the cached flights, or a provider call
ParseFlights ==
    /\ sr_pc = "flights"
    /\ IF CacheHit(sr_flight_cache, "trip")
          THEN /\ sr_flights' = [kind |-> sr_flight_cache["trip"], outcome |-> "cached"]
               /\ sr_pc' = "hotels"
               /\ UNCHANGED sr_flight_ext
          ELSE \E sdk \in SdkOutcomes :
                 LET results == SearchFlights(sr_creds, sdk)
                 IN /\ sr_flight_ext' = IF sr_creds
                                           THEN [sr_flight_ext EXCEPT !["trip"] = @ + 1]
                                           ELSE sr_flight_ext
                    /\ IF results = "raise"
                          THEN /\ sr_pc' = "raised"
                               /\ UNCHANGED sr_flights
                          ELSE /\ sr_pc' = "hotels"
                               /\ sr_flights' = [kind |-> ParsedOffers(results),
                                                 outcome |-> SeenOutcome(sr_creds, sdk)]
    /\ UNCHANGED <<sr_creds, sr_cities, sr_flight_cache, sr_hotel_cache,
                   sr_hotel_ext, sr_tools, sr_hotels>>
    /\ UNCHANGED notSr

\* _fetch_city_hotels (lines 943-957) for one of the cities, run in the pool
ParseHotels ==
    /\ sr_pc = "hotels"
    /\ \E i \in DOMAIN sr_cities :
         LET city == sr_cities[i]
         IN /\ city \notin DOMAIN sr_hotels
            /\ IF CacheHit(sr_hotel_cache, city)
                  THEN /\ sr_hotels' = SetKey(sr_hotels, city,
                              [kind |-> sr_hotel_cache[city], outcome |-> "cached"])
                       /\ UNCHANGED sr_hotel_ext
                  ELSE \E sdk \in SdkOutcomes :
                         LET results == SearchHotels(sr_creds, sdk)
                         IN /\ sr_hotel_ext' = IF sr_creds
                                                  THEN [sr_hotel_ext EXCEPT ![city] = @ + 1]
                                                  ELSE sr_hotel_ext
                            /\ sr_hotels' = SetKey(sr_hotels, city,
                                  IF results = "raise"
                                     THEN [kind |-> "raise", outcome |-> SeenOutcome(sr_creds, sdk)]
                                     ELSE [kind |-> ParsedOffers(results),
                                           outcome |-> SeenOutcome(sr_creds, sdk)])
    /\ UNCHANGED <<sr_creds, sr_cities, sr_flight_cache, sr_hotel_cache,
                   sr_flight_ext, sr_tools, sr_pc, sr_flights>>
    /\ UNCHANGED notSr

\* lines 959-963 and on: the futures are collected (future.result() raises
\* what the lookup raised) and the plan is returned
ParseCollect ==
    /\ sr_pc = "hotels"
    /\ \A i \in DOMAIN sr_cities : sr_cities[i] \in DOMAIN sr_hotels
    /\ sr_pc' = IF \E c \in DOMAIN sr_hotels : sr_hotels[c].kind = "raise"
                   THEN "raised" ELSE "done"
    /\ UNCHANGED <<sr_creds, sr_cities, sr_flight_cache, sr_hotel_cache,
                   sr_flight_ext, sr_hotel_ext, sr_tools, sr_flights, sr_hotels>>
    /\ UNCHANGED notSr

SrNext ==
    \/ FlightToolCall \/ HotelToolCall \/ CrewsDone
    \/ ParseFlights \/ ParseHotels \/ ParseCollect

InitSearch == SrInit /\ FbIdle /\ PkIdle /\ RtIdle /\ PsIdle /\ NzIdle /\ RnIdle /\ PlIdle /\ RgIdle /\ TpIdle /\ LgIdle

SpecSearch == InitSearch /\ [][SrNext]_vars

\* C17: within one run, once a flight or hotel search with a given parameter
\* tuple has been issued, no later search with the same parameters reaches
\* the external provider: each tuple is requested from it at most once.
C17_NoRepeatProviderCall ==
    /\ \A k \in FlightKeys : sr_flight_ext[k] <= 1
    /\ \A k \in HotelKeys : sr_hotel_ext[k] <= 1

ProviderDown == {"nocreds", "error"}

OffersKept(r) ==
    /\ r.kind \in {"mock", "live"}
    /\ r.outcome \in ProviderDown => r.kind = "mock"
    /\ r.outcome = "offers" => r.kind = "live"

\* C18: when the flight or the hotel provider is unavailable (no credentials,
\* or the request fails), result parsing still returns a plan, with mock
\* offers for that collaborator and the other collaborator's offers as its
\* own provider gave them.
C18_ProviderDownGivesMocks ==
    /\ sr_pc # "raised"
    /\ sr_pc = "done" =>
          /\ OffersKept(sr_flights)
          /\ \A i \in DOMAIN sr_cities :
                /\ sr_cities[i] \in DOMAIN sr_hotels
                /\ OffersKept(sr_hotels[sr_cities[i]])

\* C18 witness: a returned plan whose flight request failed and got mock
\* flights while the hotel request of Tokyo succeeded and kept its offers.
C18_Witness ==
    /\ sr_pc = "done"
    /\ sr_flights = [kind |-> "mock", outcome |-> "error"]
    /\ sr_hotels["Tokyo"] = [kind |-> "live", outcome |-> "offers"]

====
